---- MODULE Spec2Model ----
(***************************************************************************)
(* Executive Flash News: the portfolio health entity (ExecutivePortfolio)  *)
(* and the authorization gate (AuthorizationService).                      *)
(***************************************************************************)
EXTENDS Integers, Sequences, FiniteSets, TLC

VARIABLES
    projects,   \* ExecutivePortfolio.projects: the ordered project list
    op,         \* the portfolio method called last ("none" before any call)
    arg,        \* index into projects of the project passed to a per-project method, else 0
    ret,        \* what that method returned
    pc,                 \* where the call of authorizePortfolioAccess stands
    authToken,          \* its authToken argument
    executiveUserId,    \* its executiveUserId argument
    businessUnit,       \* its businessUnit argument
    storedPermissions,  \* what forgeUserAdapter.getUserPermissions resolves to, if it resolves
    pendingEvent,       \* the audit event handed to auditService.logAuthorizationEvent
    handler,            \* "try" or "catch": the block the pending audit call was made from
    afterLog,           \* what the try block returns once the pending audit call resolves
    auditLog,           \* the events the audit sink has recorded
    auditCalls,         \* the events handed to the audit sink, recorded or not
    providerCalls,      \* how many times getUserPermissions was called by the gate
    result,             \* what authorizePortfolioAccess resolved to
    authnPc,            \* where the call of authenticateUser stands
    authnUserId,        \* its executiveUserId argument
    authOptions,        \* its authOptions argument
    forgeAnswer,        \* what forgeAuthAdapter.authenticateWithForge resolved to
    forgeCalls,         \* how many times authenticateWithForge was called
    authnPending,       \* the event handed to auditService.logAuthenticationEvent
    authnHandler,       \* "try" or "catch": the block that audit call was made from
    authnAfterLog,      \* what authenticateUser returns once that audit call resolves
    authnLog,           \* the authentication events the audit sink has recorded
    authnCalls,         \* the authentication events handed to the audit sink
    authResult,         \* what authenticateUser resolved to
    filterPc,           \* where the calls of filterPortfolioDataByPermissions stand
    userPermissions,    \* what getUserPermissions resolves to when it resolves
    portfolioData,      \* the object passed to the first call, as it is now
    originalData,       \* that object as it was when the call was made
    filteredData,       \* what the first call resolved to
    filterOutcome,      \* how the first call ended
    refilteredData,     \* what the call on the first call's own result resolved to
    refilterOutcome,    \* how that second call ended
    servicePc,          \* where the call of getExecutivePortfolio stands
    serviceUserId,      \* its executiveUserId argument
    serviceToken,       \* its authToken argument
    fetchedProjects,    \* what jiraDataPort.getExecutiveProjects resolved to
    jiraCalls,          \* how many times the jiraDataPort was queried
    serviceEvents,      \* the events getExecutivePortfolio handed to the audit sink
    serviceResult,      \* what getExecutivePortfolio resolved to
    dashPc,             \* where the call of resolveDashboard stands
    jiraUser,           \* what ForgeJiraAdapter.getCurrentUser resolved to
    projectResponse,    \* how the platform answered the project search
    dashProjects,       \* what ForgeJiraAdapter.getExecutiveProjects resolved to
    countResponses,     \* per project, how the platform answered the three counts
    dashEnhanced,       \* the projects merged with their health metrics
    dashboard           \* what resolveDashboard resolved to

pvars == <<projects, op, arg, ret>>

avars == <<pc, authToken, executiveUserId, businessUnit, storedPermissions,
           pendingEvent, handler, afterLog, auditLog, auditCalls, providerCalls,
           result>>

nvars == <<authnPc, authnUserId, authOptions, forgeAnswer, forgeCalls,
           authnPending, authnHandler, authnAfterLog, authnLog, authnCalls,
           authResult>>

fvars == <<filterPc, userPermissions, portfolioData, originalData, filteredData,
           filterOutcome, refilteredData, refilterOutcome>>

svars == <<servicePc, serviceUserId, serviceToken, fetchedProjects, jiraCalls,
           serviceEvents, serviceResult>>

dvars == <<dashPc, jiraUser, projectResponse, dashProjects, countResponses,
           dashEnhanced, dashboard>>

\* the arguments of authorizePortfolioAccess and the provider's answer
authArgs == <<authToken, executiveUserId, businessUnit, storedPermissions>>

\* everything the portfolio entity does not touch
notPortfolio == <<avars, nvars, fvars, svars, dvars>>

\* everything authorizePortfolioAccess does not touch
notAuth == <<pvars, nvars, fvars, svars, dvars>>

\* everything authenticateUser does not touch
notAuthn == <<pvars, avars, fvars, svars, dvars>>

\* everything filterPortfolioDataByPermissions does not touch
notFilter == <<pvars, avars, nvars, svars, dvars>>

\* everything resolveDashboard does not touch
notDashboard == <<pvars, avars, nvars, fvars, svars>>

vars == <<pvars, avars, nvars, fvars, svars, dvars>>

(***************************************************************************)
(* Bounds of the model.                                                    *)
(***************************************************************************)
MaxOverdue == 7
MaxBlocked == 7
MaxHighPriority == 13
MaxProjects == 3
MaxPermissions == 2
MaxFilterPermissions == 2
MaxFilterProjects == 2

(***************************************************************************)
(* Inputs.                                                                 *)
(***************************************************************************)
ProjectIds == { <<"EXEC", "Executive Dashboard">>, <<"SALES", "Sales Pipeline">> }

MkProject(id, o, b, h) ==
    [key |-> id[1], name |-> id[2],
     overdueIssues |-> o, blockedIssues |-> b, highPriorityIssues |-> h]

\* every combination of counts, for the per-project methods
AllProjects ==
    { MkProject(id, o, b, h) :
        id \in ProjectIds, o \in 0..MaxOverdue, b \in 0..MaxBlocked,
        h \in 0..MaxHighPriority }

\* <<overdue, blocked, highPriority>> of the projects of portfolios
SampleCounts ==
    { <<0, 0, 0>>, <<1, 0, 0>>, <<7, 0, 0>>, <<0, 4, 0>>,
      <<5, 0, 3>>, <<5, 3, 13>>, <<7, 4, 13>>, <<7, 7, 13>> }

SampleProjects ==
    { MkProject(id, c[1], c[2], c[3]) : id \in ProjectIds, c \in SampleCounts }

SeqsUpTo(S, n) == UNION { [1..k -> S] : k \in 0..n }

PortfolioInputs == SeqsUpTo(SampleProjects, MaxProjects)

SingleProjectInputs == { <<p>> : p \in AllProjects }

(***************************************************************************)
(* Arithmetic and formatting of the JavaScript runtime.                    *)
(***************************************************************************)
Min(a, b) == IF a < b THEN a ELSE b

Max(a, b) == IF a > b THEN a ELSE b

\* Math.round(num / den) for num >= 0, den > 0: halves round up
RoundDiv(num, den) == (2 * num + den) \div (2 * den)

Digit(d) ==
    CASE d = 0 -> "0" [] d = 1 -> "1" [] d = 2 -> "2" [] d = 3 -> "3"
      [] d = 4 -> "4" [] d = 5 -> "5" [] d = 6 -> "6" [] d = 7 -> "7"
      [] d = 8 -> "8" [] d = 9 -> "9"

RECURSIVE NumberToString(_)
\* the decimal text a template literal gives a non-negative integer
NumberToString(n) ==
    IF n < 10 THEN Digit(n) ELSE NumberToString(n \div 10) \o Digit(n % 10)

(***************************************************************************)
(* ExecutivePortfolio: per-project rules.                                  *)
(***************************************************************************)
\* bug: the overdue deduction is added instead of subtracted
CalculateProjectHealth_OverdueAdded(project) ==
    LET s0 == 100
        s1 == IF project.overdueIssues > 0
              THEN s0 + Min(30, project.overdueIssues * 5) ELSE s0
        s2 == IF project.blockedIssues > 0
              THEN s1 - Min(20, project.blockedIssues * 3) ELSE s1
        s3 == IF project.highPriorityIssues > 0
              THEN s2 - Min(25, project.highPriorityIssues * 2) ELSE s2
    IN  Max(0, s3)

\* bug: the overdue deduction has no cap
CalculateProjectHealth_OverdueUncapped(project) ==
    LET s0 == 100
        s1 == IF project.overdueIssues > 0
              THEN s0 - project.overdueIssues * 5 ELSE s0
        s2 == IF project.blockedIssues > 0
              THEN s1 - Min(20, project.blockedIssues * 3) ELSE s1
        s3 == IF project.highPriorityIssues > 0
              THEN s2 - Min(25, project.highPriorityIssues * 2) ELSE s2
    IN  Max(0, s3)

\* bug: the blocked deduction copies the overdue factor (5 per issue instead of 3)
CalculateProjectHealth_BlockedFactor(project) ==
    LET s0 == 100
        s1 == IF project.overdueIssues > 0
              THEN s0 - Min(30, project.overdueIssues * 5) ELSE s0
        s2 == IF project.blockedIssues > 0
              THEN s1 - Min(20, project.blockedIssues * 5) ELSE s1
        s3 == IF project.highPriorityIssues > 0
              THEN s2 - Min(25, project.highPriorityIssues * 2) ELSE s2
    IN  Max(0, s3)

CalculateProjectHealth(project) ==
    LET s0 == 100
        s1 == IF project.overdueIssues > 0
              THEN s0 - Min(30, project.overdueIssues * 5) ELSE s0
        s2 == IF project.blockedIssues > 0
              THEN s1 - Min(20, project.blockedIssues * 3) ELSE s1
        s3 == IF project.highPriorityIssues > 0
              THEN s2 - Min(25, project.highPriorityIssues * 2) ELSE s2
    IN  Max(0, s3)

\* bug: the overdue trigger is off by one (>= 5 instead of > 5)
IsProjectCritical_OverdueOffByOne(project) ==
    \/ CalculateProjectHealth(project) < 50
    \/ project.overdueIssues >= 5
    \/ project.blockedIssues > 3

IsProjectCritical(project) ==
    \/ CalculateProjectHealth(project) < 50
    \/ project.overdueIssues > 5
    \/ project.blockedIssues > 3

\* bug: the blocked trigger is tested before the overdue trigger
GetCriticalReason_BlockedFirst(project) ==
    IF project.blockedIssues > 3
    THEN NumberToString(project.blockedIssues) \o " blocked issues"
    ELSE IF project.overdueIssues > 5
    THEN NumberToString(project.overdueIssues) \o " overdue issues"
    ELSE IF CalculateProjectHealth(project) < 50
    THEN "Overall health below 50%"
    ELSE "Multiple risk factors"

GetCriticalReason(project) ==
    IF project.overdueIssues > 5
    THEN NumberToString(project.overdueIssues) \o " overdue issues"
    ELSE IF project.blockedIssues > 3
    THEN NumberToString(project.blockedIssues) \o " blocked issues"
    ELSE IF CalculateProjectHealth(project) < 50
    THEN "Overall health below 50%"
    ELSE "Multiple risk factors"

(***************************************************************************)
(* ExecutivePortfolio: portfolio rules.                                    *)
(***************************************************************************)
RECURSIVE TotalScore(_)
\* projects.reduce((sum, project) => sum + _calculateProjectHealth(project), 0)
TotalScore(ps) ==
    IF ps = << >> THEN 0
    ELSE TotalScore(SubSeq(ps, 1, Len(ps) - 1)) + CalculateProjectHealth(ps[Len(ps)])

\* bug: Math.floor instead of Math.round
CalculateHealthScore_Floor(ps) ==
    IF Len(ps) = 0 THEN 0 ELSE TotalScore(ps) \div Len(ps)

CalculateHealthScore(ps) ==
    IF Len(ps) = 0 THEN 0 ELSE RoundDiv(TotalScore(ps), Len(ps))

Alert(project) ==
    [projectKey |-> project.key,
     projectName |-> project.name,
     alertLevel |-> "CRITICAL",
     reason |-> GetCriticalReason(project)]

\* bug: the filter keeps the projects that are not critical
GetCriticalAlerts_FilterNegated(ps) ==
    LET critical == SelectSeq(ps, LAMBDA p : ~IsProjectCritical(p))
    IN  [k \in 1..Len(critical) |-> Alert(critical[k])]

GetCriticalAlerts(ps) ==
    LET critical == SelectSeq(ps, IsProjectCritical)
    IN  [k \in 1..Len(critical) |-> Alert(critical[k])]

IsOnTrack(project) == CalculateProjectHealth(project) >= 70

\* bug: the at-risk bucket takes the boundary score too (<= 70)
IsAtRisk_Inclusive(project) == CalculateProjectHealth(project) <= 70

IsAtRisk(project) == CalculateProjectHealth(project) < 70

GetPortfolioSummary(ps) ==
    [totalProjects |-> Len(ps),
     healthScore |-> CalculateHealthScore(ps),
     criticalAlerts |-> Len(GetCriticalAlerts(ps)),
     onTrackProjects |-> Len(SelectSeq(ps, IsOnTrack)),
     atRiskProjects |-> Len(SelectSeq(ps, IsAtRisk))]

(***************************************************************************)
(* The portfolio after construction, and its methods.                      *)
(***************************************************************************)
\* no call of authorizePortfolioAccess is in progress
AuthIdle ==
    /\ pc = "idle"
    /\ authToken = ""
    /\ executiveUserId = ""
    /\ businessUnit = ""
    /\ storedPermissions = [isArray |-> TRUE, items |-> << >>]
    /\ pendingEvent = [result |-> "NONE"]
    /\ handler = "try"
    /\ afterLog = FALSE
    /\ auditLog = << >>
    /\ auditCalls = << >>
    /\ providerCalls = 0
    /\ result = FALSE

\* no call of authenticateUser is in progress
AuthnIdle ==
    /\ authnPc = "idle"
    /\ authnUserId = ""
    /\ authOptions = [forgeContext |-> FALSE]
    /\ forgeAnswer = [success |-> FALSE]
    /\ forgeCalls = 0
    /\ authnPending = [event |-> "NONE"]
    /\ authnHandler = "try"
    /\ authnAfterLog = [success |-> FALSE]
    /\ authnLog = << >>
    /\ authnCalls = << >>
    /\ authResult = [success |-> FALSE]

\* no call of filterPortfolioDataByPermissions is in progress
FilterIdle ==
    /\ filterPc = "idle"
    /\ userPermissions = [isArray |-> TRUE, items |-> << >>]
    /\ portfolioData = [projects |-> << >>]
    /\ originalData = [projects |-> << >>]
    /\ filteredData = [projects |-> << >>]
    /\ filterOutcome = "none"
    /\ refilteredData = [projects |-> << >>]
    /\ refilterOutcome = "none"

\* no call of resolveDashboard is in progress
DashboardIdle ==
    /\ dashPc = "idle"
    /\ jiraUser = [accountId |-> "unknown"]
    /\ projectResponse = [kind |-> "none"]
    /\ dashProjects = << >>
    /\ countResponses = << >>
    /\ dashEnhanced = << >>
    /\ dashboard = [criticalAlerts |-> << >>]

\* no call of getExecutivePortfolio is in progress
ServiceIdle ==
    /\ servicePc = "idle"
    /\ serviceUserId = ""
    /\ serviceToken = ""
    /\ fetchedProjects = << >>
    /\ jiraCalls = 0
    /\ serviceEvents = << >>
    /\ serviceResult = [projects |-> << >>]

\* no portfolio method has been called on an empty portfolio
PortfolioIdle ==
    /\ projects = << >>
    /\ op = "none"
    /\ arg = 0
    /\ ret = 0

Init ==
    /\ projects \in PortfolioInputs
    /\ op = "none"
    /\ arg = 0
    /\ ret = 0
    /\ AuthIdle
    /\ AuthnIdle
    /\ FilterIdle
    /\ ServiceIdle
    /\ DashboardIdle

CallCalculateHealthScore ==
    /\ op' = "calculateHealthScore"
    /\ arg' = 0
    /\ ret' = CalculateHealthScore(projects)
    /\ UNCHANGED <<projects, notPortfolio>>

CallGetCriticalAlerts ==
    /\ op' = "getCriticalAlerts"
    /\ arg' = 0
    /\ ret' = GetCriticalAlerts(projects)
    /\ UNCHANGED <<projects, notPortfolio>>

CallGetPortfolioSummary ==
    /\ op' = "getPortfolioSummary"
    /\ arg' = 0
    /\ ret' = GetPortfolioSummary(projects)
    /\ UNCHANGED <<projects, notPortfolio>>

Next ==
    \/ CallCalculateHealthScore
    \/ CallGetCriticalAlerts
    \/ CallGetPortfolioSummary

Spec == Init /\ [][Next]_vars

(***************************************************************************)
(* The per-project methods, called with each project in turn.              *)
(***************************************************************************)
InitProject ==
    /\ projects \in SingleProjectInputs
    /\ op = "none"
    /\ arg = 0
    /\ ret = 0
    /\ AuthIdle
    /\ AuthnIdle
    /\ FilterIdle
    /\ ServiceIdle
    /\ DashboardIdle

CallCalculateProjectHealth(i) ==
    /\ op' = "_calculateProjectHealth"
    /\ arg' = i
    /\ ret' = CalculateProjectHealth(projects[i])
    /\ UNCHANGED <<projects, notPortfolio>>

CallIsProjectCritical(i) ==
    /\ op' = "_isProjectCritical"
    /\ arg' = i
    /\ ret' = IsProjectCritical(projects[i])
    /\ UNCHANGED <<projects, notPortfolio>>

CallGetCriticalReason(i) ==
    /\ op' = "_getCriticalReason"
    /\ arg' = i
    /\ ret' = GetCriticalReason(projects[i])
    /\ UNCHANGED <<projects, notPortfolio>>

NextProject ==
    \/ \E i \in DOMAIN projects : CallCalculateProjectHealth(i)
    \/ \E i \in DOMAIN projects : CallIsProjectCritical(i)
    \/ \E i \in DOMAIN projects : CallGetCriticalReason(i)

SpecProject == InitProject /\ [][NextProject]_vars

(***************************************************************************)
(* AuthorizationService: values of the JavaScript runtime.                 *)
(***************************************************************************)
\* stands for the JavaScript value null
JsNull == "#null"

\* !value, for null and strings
Falsy(value) == value \in {JsNull, ""}

\* typeof value === 'string' && value.startsWith(prefix)
StartsWith(value, prefix) ==
    /\ value # JsNull
    /\ Len(value) >= Len(prefix)
    /\ SubSeq(value, 1, Len(prefix)) = prefix

\* the outcome of evaluating an expression: a value, or an error thrown
Returned(v) == [threw |-> FALSE, value |-> v]

Thrown(message) == [threw |-> TRUE, message |-> message]

(***************************************************************************)
(* AuthorizationService: inputs and collaborators' answers.                *)
(***************************************************************************)
AuthTokenInputs == {JsNull, "", "auth-token-12345"}

UserIdInputs == {JsNull, "user-001", "exec-ceo-001", "exec-"}

BusinessUnitInputs == {"Corporate", "Sales"}

PermissionTypes == {"PORTFOLIO_VIEW", "FINANCIAL_DATA"}

ScopeInputs == { {}, {"Sales"}, {"Corporate"}, {"All_Units"} }

\* a permission entry { type, scope }
Permission(type, scope) ==
    [isNull |-> FALSE, type |-> type, hasScope |-> TRUE, scope |-> scope]

\* a malformed entry { type }: scope is undefined
PermissionWithoutScope(type) ==
    [isNull |-> FALSE, type |-> type, hasScope |-> FALSE, scope |-> {}]

\* a malformed entry: null in place of the object
NullPermission ==
    [isNull |-> TRUE, type |-> "", hasScope |-> FALSE, scope |-> {}]

PermissionEntries ==
    { Permission(t, sc) : t \in PermissionTypes, sc \in ScopeInputs }
        \cup { PermissionWithoutScope(t) : t \in PermissionTypes }
        \cup { NullPermission }

\* what getUserPermissions can resolve to: an array of entries, or null
PermissionAnswers ==
    { [isArray |-> TRUE, items |-> l] : l \in SeqsUpTo(PermissionEntries, MaxPermissions) }
        \cup { [isArray |-> FALSE, items |-> << >>] }

(***************************************************************************)
(* AuthorizationService: helpers.                                          *)
(***************************************************************************)
IsValidExecutiveUserId(userId) == StartsWith(userId, "exec-")

RECURSIVE SomeHasType(_, _, _)
\* items.some(permission => permission.type === type), from index i on
SomeHasType(items, type, i) ==
    IF i > Len(items) THEN Returned(FALSE)
    ELSE IF items[i].isNull THEN Thrown("TypeError")
    ELSE IF items[i].type = type THEN Returned(TRUE)
    ELSE SomeHasType(items, type, i + 1)

HasPermissionType(permissions, type) ==
    IF ~permissions.isArray THEN Thrown("TypeError")
    ELSE SomeHasType(permissions.items, type, 1)

RECURSIVE SomeScopeIncludes(_, _, _)
\* relevant.some(p => p.scope.includes(unit) || p.scope.includes('All_Units')), from i on
SomeScopeIncludes(relevant, unit, i) ==
    IF i > Len(relevant) THEN Returned(FALSE)
    ELSE IF ~relevant[i].hasScope THEN Thrown("TypeError")
    ELSE IF unit \in relevant[i].scope \/ "All_Units" \in relevant[i].scope
    THEN Returned(TRUE)
    ELSE SomeScopeIncludes(relevant, unit, i + 1)

HasBusinessUnitAccess(permissions, type, unit) ==
    IF ~permissions.isArray THEN Thrown("TypeError")
    ELSE IF \E i \in DOMAIN permissions.items : permissions.items[i].isNull
    THEN Thrown("TypeError")
    ELSE SomeScopeIncludes(
             SelectSeq(permissions.items, LAMBDA p : p.type = type), unit, 1)

\* the auditData of _logAuthorizationEvent (the timestamp is left out)
AuditEvent(userId, unit, outcome) ==
    [userId |-> userId, resource |-> "PORTFOLIO_DATA", action |-> "READ",
     businessUnit |-> unit, result |-> outcome]

AuditEventWithReason(userId, unit, outcome, reason) ==
    [userId |-> userId, resource |-> "PORTFOLIO_DATA", action |-> "READ",
     businessUnit |-> unit, result |-> outcome, reason |-> reason]

(***************************************************************************)
(* AuthorizationService.authorizePortfolioAccess, one action per stretch   *)
(* of code between two awaits.                                             *)
(***************************************************************************)
InitAuth ==
    /\ PortfolioIdle
    /\ AuthnIdle
    /\ FilterIdle
    /\ ServiceIdle
    /\ DashboardIdle
    /\ pc = "called"
    /\ authToken \in AuthTokenInputs
    /\ executiveUserId \in UserIdInputs
    /\ businessUnit \in BusinessUnitInputs
    /\ storedPermissions \in PermissionAnswers
    /\ pendingEvent = [result |-> "NONE"]
    /\ handler = "try"
    /\ afterLog = FALSE
    /\ auditLog = << >>
    /\ auditCalls = << >>
    /\ providerCalls = 0
    /\ result = FALSE

\* await this._logAuthorizationEvent(..., 'DENIED', { reason }); return false
LogDenied(reason) ==
    /\ pendingEvent' =
          AuditEventWithReason(executiveUserId, businessUnit, "DENIED", reason)
    /\ auditCalls' = Append(auditCalls, pendingEvent')
    /\ handler' = "try"
    /\ afterLog' = FALSE
    /\ pc' = "logging"

\* await this._logAuthorizationEvent(..., 'AUTHORIZED'); return true
LogAuthorized ==
    /\ pendingEvent' = AuditEvent(executiveUserId, businessUnit, "AUTHORIZED")
    /\ auditCalls' = Append(auditCalls, pendingEvent')
    /\ handler' = "try"
    /\ afterLog' = TRUE
    /\ pc' = "logging"

\* catch (error): await this._logAuthorizationEvent(..., 'ERROR', { reason: error.message })
LogError(message) ==
    /\ pendingEvent' =
          AuditEventWithReason(executiveUserId, businessUnit, "ERROR", message)
    /\ auditCalls' = Append(auditCalls, pendingEvent')
    /\ handler' = "catch"
    /\ afterLog' = FALSE
    /\ pc' = "logging"

\* bug: the user id is checked before the token
ValidateArguments_UserIdFirst ==
    /\ pc = "called"
    /\ IF ~IsValidExecutiveUserId(executiveUserId)
       THEN LogDenied("Invalid executive user ID format")
       ELSE IF Falsy(authToken)
       THEN LogDenied("Invalid authentication token")
       ELSE /\ pc' = "fetching"
            /\ UNCHANGED <<pendingEvent, handler, afterLog, auditCalls>>
    /\ providerCalls' =
          IF Falsy(authToken) \/ ~IsValidExecutiveUserId(executiveUserId)
          THEN providerCalls ELSE providerCalls + 1
    /\ UNCHANGED <<notAuth, authArgs, auditLog, result>>

\* from the call to the first await
ValidateArguments ==
    /\ pc = "called"
    /\ IF Falsy(authToken)
       THEN LogDenied("Invalid authentication token")
       ELSE IF ~IsValidExecutiveUserId(executiveUserId)
       THEN LogDenied("Invalid executive user ID format")
       ELSE /\ pc' = "fetching"
            /\ UNCHANGED <<pendingEvent, handler, afterLog, auditCalls>>
    /\ providerCalls' =
          IF Falsy(authToken) \/ ~IsValidExecutiveUserId(executiveUserId)
          THEN providerCalls ELSE providerCalls + 1
    /\ UNCHANGED <<notAuth, authArgs, auditLog, result>>

\* forgeUserAdapter.getUserPermissions resolves; the two permission checks
PermissionsResolved ==
    /\ pc = "fetching"
    /\ LET hasType == HasPermissionType(storedPermissions, "PORTFOLIO_VIEW")
           hasUnit == HasBusinessUnitAccess(storedPermissions, "PORTFOLIO_VIEW",
                                            businessUnit)
       IN  IF hasType.threw THEN LogError(hasType.message)
           ELSE IF ~hasType.value THEN LogDenied("No portfolio view permissions")
           ELSE IF hasUnit.threw THEN LogError(hasUnit.message)
           ELSE IF ~hasUnit.value
           THEN LogDenied("Insufficient permissions for business unit")
           ELSE LogAuthorized
    /\ UNCHANGED <<notAuth, authArgs, auditLog, providerCalls, result>>

\* forgeUserAdapter.getUserPermissions rejects
PermissionsRejected ==
    /\ pc = "fetching"
    /\ LogError("User service unavailable")
    /\ UNCHANGED <<notAuth, authArgs, auditLog, providerCalls, result>>

\* auditService.logAuthorizationEvent resolves: the function returns
AuditRecorded ==
    /\ pc = "logging"
    /\ auditLog' = Append(auditLog, pendingEvent)
    /\ result' = IF handler = "try" THEN afterLog ELSE FALSE
    /\ pc' = "returned"
    /\ UNCHANGED <<notAuth, authArgs, pendingEvent, handler, afterLog,
                   auditCalls, providerCalls>>

\* bug: a failed audit call is swallowed and the decision returned all the same
AuditFailed_Swallowed ==
    /\ pc = "logging"
    /\ result' = IF handler = "try" THEN afterLog ELSE FALSE
    /\ pc' = "returned"
    /\ UNCHANGED <<notAuth, authArgs, pendingEvent, handler, afterLog, auditLog,
                   auditCalls, providerCalls>>

\* auditService.logAuthorizationEvent rejects: inside try the catch block logs
\* an ERROR event; inside catch nothing handles it and the call rejects
AuditFailed ==
    /\ pc = "logging"
    /\ IF handler = "try"
       THEN LogError("Audit service unavailable")
       ELSE /\ pc' = "threw"
            /\ UNCHANGED <<pendingEvent, handler, afterLog, auditCalls>>
    /\ UNCHANGED <<notAuth, authArgs, auditLog, providerCalls, result>>

NextAuth ==
    \/ ValidateArguments
    \/ PermissionsResolved
    \/ PermissionsRejected
    \/ AuditRecorded
    \/ AuditFailed

SpecAuth == InitAuth /\ [][NextAuth]_vars

(***************************************************************************)
(* AuthenticationService.authenticateUser, one action per stretch of code  *)
(* between two awaits.                                                     *)
(***************************************************************************)
AuthOptionsInputs ==
    { [forgeContext |-> TRUE],
      [forgeContext |-> FALSE],
      [securityLevel |-> "low"],
      [forgeContext |-> TRUE, securityLevel |-> "low"],
      [forgeContext |-> TRUE, securityLevel |-> "high"],
      [forgeContext |-> FALSE, securityLevel |-> "low"] }

AuthnUserIdInputs == {JsNull, "user-001", "regular-user-001", "exec-ceo-001", "exec-"}

\* what authenticateWithForge can resolve to (the user object is stood for by its userId)
ForgeAnswers ==
    { [success |-> TRUE, token |-> "auth-token-12345", user |-> "exec-ceo-001"],
      [success |-> FALSE, error |-> "Invalid credentials",
       token |-> JsNull, user |-> JsNull] }

\* !authOptions.forgeContext
ForgeContextMissing(options) ==
    ~("forgeContext" \in DOMAIN options /\ options.forgeContext)

\* authOptions.securityLevel === 'low'
SecurityLevelLow(options) ==
    "securityLevel" \in DOMAIN options /\ options.securityLevel = "low"

\* failureResult / errorResult
FailureResult(message) ==
    [success |-> FALSE, error |-> message, token |-> JsNull, user |-> JsNull]

\* the auditData of _logAuthenticationEvent (the timestamp is left out)
AuthenticationEvent(userId, event) ==
    [userId |-> userId, event |-> event, method |-> "FORGE"]

AuthenticationEventWithError(userId, event, message) ==
    [userId |-> userId, event |-> event, method |-> "FORGE", error |-> message]

InitAuthn ==
    /\ PortfolioIdle
    /\ AuthIdle
    /\ FilterIdle
    /\ ServiceIdle
    /\ DashboardIdle
    /\ authnPc = "called"
    /\ authnUserId \in AuthnUserIdInputs
    /\ authOptions \in AuthOptionsInputs
    /\ forgeAnswer = [success |-> FALSE]
    /\ forgeCalls = 0
    /\ authnPending = [event |-> "NONE"]
    /\ authnHandler = "try"
    /\ authnAfterLog = [success |-> FALSE]
    /\ authnLog = << >>
    /\ authnCalls = << >>
    /\ authResult = [success |-> FALSE]

\* await this._logAuthenticationEvent(..., 'AUTHENTICATION_FAILURE', { error }); return failureResult
RejectByRule(message) ==
    /\ authnPending' =
          AuthenticationEventWithError(authnUserId, "AUTHENTICATION_FAILURE", message)
    /\ authnCalls' = Append(authnCalls, authnPending')
    /\ authnHandler' = "try"
    /\ authnAfterLog' = FailureResult(message)
    /\ authnPc' = "logging"

\* catch (error): build errorResult, await the AUTHENTICATION_ERROR event, return errorResult
CatchAuthenticationError(message) ==
    /\ authnPending' =
          AuthenticationEventWithError(authnUserId, "AUTHENTICATION_ERROR", message)
    /\ authnCalls' = Append(authnCalls, authnPending')
    /\ authnHandler' = "catch"
    /\ authnAfterLog' = FailureResult(message)
    /\ authnPc' = "logging"

\* bug: the security level is not checked before the platform is contacted
CheckBusinessRules_NoSecurityLevel ==
    /\ authnPc = "called"
    /\ IF ForgeContextMissing(authOptions)
       THEN /\ RejectByRule("Forge context required for executive authentication")
            /\ UNCHANGED forgeCalls
       ELSE IF ~IsValidExecutiveUserId(authnUserId)
       THEN /\ RejectByRule("Invalid executive user ID format")
            /\ UNCHANGED forgeCalls
       ELSE /\ authnPc' = "authenticating"
            /\ forgeCalls' = forgeCalls + 1
            /\ UNCHANGED <<authnPending, authnHandler, authnAfterLog, authnCalls>>
    /\ UNCHANGED <<notAuthn, authnUserId, authOptions, forgeAnswer, authnLog,
                   authResult>>

\* from the call to the first await: the three business rules
CheckBusinessRules ==
    /\ authnPc = "called"
    /\ IF ForgeContextMissing(authOptions)
       THEN /\ RejectByRule("Forge context required for executive authentication")
            /\ UNCHANGED forgeCalls
       ELSE IF ~IsValidExecutiveUserId(authnUserId)
       THEN /\ RejectByRule("Invalid executive user ID format")
            /\ UNCHANGED forgeCalls
       ELSE IF SecurityLevelLow(authOptions)
       THEN /\ RejectByRule("Insufficient security level for executive access")
            /\ UNCHANGED forgeCalls
       ELSE /\ authnPc' = "authenticating"
            /\ forgeCalls' = forgeCalls + 1
            /\ UNCHANGED <<authnPending, authnHandler, authnAfterLog, authnCalls>>
    /\ UNCHANGED <<notAuthn, authnUserId, authOptions, forgeAnswer, authnLog,
                   authResult>>

\* authenticateWithForge resolves: the outcome is logged and authResult returned
ForgeResolved(answer) ==
    /\ authnPc = "authenticating"
    /\ forgeAnswer' = answer
    /\ authnPending' =
          IF answer.success
          THEN AuthenticationEvent(authnUserId, "AUTHENTICATION_SUCCESS")
          ELSE AuthenticationEventWithError(authnUserId, "AUTHENTICATION_FAILURE",
                                            answer.error)
    /\ authnCalls' = Append(authnCalls, authnPending')
    /\ authnHandler' = "try"
    /\ authnAfterLog' = answer
    /\ authnPc' = "logging"
    /\ UNCHANGED <<notAuthn, authnUserId, authOptions, forgeCalls, authnLog,
                   authResult>>

\* authenticateWithForge rejects
ForgeRejected ==
    /\ authnPc = "authenticating"
    /\ CatchAuthenticationError("Forge authentication service unavailable")
    /\ UNCHANGED <<notAuthn, authnUserId, authOptions, forgeAnswer, forgeCalls,
                   authnLog, authResult>>

\* auditService.logAuthenticationEvent resolves: the function returns
AuthenticationEventRecorded ==
    /\ authnPc = "logging"
    /\ authnLog' = Append(authnLog, authnPending)
    /\ authResult' = authnAfterLog
    /\ authnPc' = "returned"
    /\ UNCHANGED <<notAuthn, authnUserId, authOptions, forgeAnswer, forgeCalls,
                   authnPending, authnHandler, authnAfterLog, authnCalls>>

\* auditService.logAuthenticationEvent rejects: inside try the catch block
\* takes over; inside catch nothing handles it and the call rejects
AuthenticationEventFailed ==
    /\ authnPc = "logging"
    /\ IF authnHandler = "try"
       THEN CatchAuthenticationError("Audit service unavailable")
       ELSE /\ authnPc' = "threw"
            /\ UNCHANGED <<authnPending, authnHandler, authnAfterLog, authnCalls>>
    /\ UNCHANGED <<notAuthn, authnUserId, authOptions, forgeAnswer, forgeCalls,
                   authnLog, authResult>>

NextAuthn ==
    \/ CheckBusinessRules
    \/ \E answer \in ForgeAnswers : ForgeResolved(answer)
    \/ ForgeRejected
    \/ AuthenticationEventRecorded
    \/ AuthenticationEventFailed

SpecAuthn == InitAuthn /\ [][NextAuthn]_vars

(***************************************************************************)
(* AuthorizationService.filterPortfolioDataByPermissions: values.          *)
(***************************************************************************)
JsUndefined == "#undefined"

\* the fields of a project that can be present with the value undefined
OptionalStringFields == {"leadAccountId"}

\* the project fields the filter redacts
SensitiveProjectFields == {"budget", "revenue", "detailedMetrics"}

\* object[field] !== undefined
Defined(object, field) ==
    /\ field \in DOMAIN object
    /\ field \in OptionalStringFields => object[field] # JsUndefined

\* object after delete object.f for every f of fields
Without(object, fields) == [f \in DOMAIN object \ fields |-> object[f]]

FilterPermissionEntries ==
    { Permission("PORTFOLIO_VIEW", {"Sales"}),
      Permission("PORTFOLIO_VIEW", {"All_Units"}),
      PermissionWithoutScope("PORTFOLIO_VIEW"),
      Permission("FINANCIAL_DATA", {"Corporate"}),
      Permission("DETAILED_METRICS", {"Corporate"}),
      NullPermission }

FilterPermissionAnswers ==
    { [isArray |-> TRUE, items |-> l] :
        l \in SeqsUpTo(FilterPermissionEntries, MaxFilterPermissions) }
        \cup { [isArray |-> FALSE, items |-> << >>] }

FilterProjects ==
    { [key |-> "CRM", name |-> "Sales CRM", businessUnit |-> "Sales",
       overdueIssues |-> 7, blockedIssues |-> 0, highPriorityIssues |-> 0,
       budget |-> 1000000, revenue |-> 2000000,
       detailedMetrics |-> [velocity |-> 85, burndown |-> "on-track"]],
      [key |-> "PLAT", name |-> "Platform", businessUnit |-> "Engineering",
       leadAccountId |-> JsUndefined,
       overdueIssues |-> 0, blockedIssues |-> 4, highPriorityIssues |-> 0,
       budget |-> 500000, revenue |-> 0,
       detailedMetrics |-> [velocity |-> 60, burndown |-> "behind"]],
      [key |-> "LEADS", name |-> "Sales Leads", businessUnit |-> "Sales",
       leadAccountId |-> "acc-1",
       overdueIssues |-> 1, blockedIssues |-> 0, highPriorityIssues |-> 0],
      [key |-> "EXEC", name |-> "Executive Dashboard", businessUnit |-> "Corporate",
       overdueIssues |-> 0, blockedIssues |-> 0, highPriorityIssues |-> 0,
       budget |-> 250000] }

\* the object _getRawPortfolioData builds from a project list
RawPortfolioData(ps) ==
    [projects |-> ps,
     portfolio |-> GetPortfolioSummary(ps),
     criticalAlerts |-> GetCriticalAlerts(ps),
     financialData |-> [totalBudget |-> 5000000, totalRevenue |-> 8000000],
     detailedMetrics |-> [averageVelocity |-> 85, teamSatisfaction |-> "8.2"],
     lastUpdated |-> "2024-01-01T00:00:00.000Z"]

\* the portfolio data the unit tests pass in: projects and financialData only
BarePortfolioData(ps) ==
    [projects |-> ps,
     financialData |-> [totalBudget |-> 5000000, totalRevenue |-> 8000000]]

PortfolioDataInputs ==
    { RawPortfolioData(ps) : ps \in SeqsUpTo(FilterProjects, MaxFilterProjects) }
        \cup { BarePortfolioData(ps) : ps \in SeqsUpTo(FilterProjects, MaxFilterProjects) }
        \cup { Without(RawPortfolioData(<< >>), {"projects"}) }

(***************************************************************************)
(* AuthorizationService.filterPortfolioDataByPermissions: helpers.         *)
(***************************************************************************)
\* JSON.parse(JSON.stringify(project)): a field whose value is undefined is dropped
JsonRoundTripProject(project) ==
    [f \in { g \in DOMAIN project : Defined(project, g) } |-> project[f]]

\* JSON.parse(JSON.stringify(portfolioData))
JsonRoundTrip(data) ==
    IF "projects" \in DOMAIN data
    THEN [data EXCEPT !.projects = [i \in 1..Len(@) |-> JsonRoundTripProject(@[i])]]
    ELSE data

\* bug: the function works on the object it was given
WorkingCopy_NoClone(data) == [value |-> data, aliased |-> TRUE]

\* const filteredData = JSON.parse(JSON.stringify(portfolioData))
WorkingCopy(data) == [value |-> JsonRoundTrip(data), aliased |-> FALSE]

\* units.concat(permission.scope): an undefined scope is appended as undefined
ScopeUnits(permission) ==
    IF permission.hasScope THEN permission.scope ELSE {JsUndefined}

\* bug: any PORTFOLIO_VIEW permission lets every project through
FilterProjectsByBusinessUnit_IgnoresScope(ps, permissions) ==
    IF ~permissions.isArray THEN Thrown("TypeError")
    ELSE IF \E i \in DOMAIN permissions.items : permissions.items[i].isNull
    THEN Thrown("TypeError")
    ELSE LET portfolioPermissions ==
                 SelectSeq(permissions.items, LAMBDA q : q.type = "PORTFOLIO_VIEW")
         IN  IF Len(portfolioPermissions) = 0 THEN Returned(<< >>)
             ELSE Returned(ps)

FilterProjectsByBusinessUnit(ps, permissions) ==
    IF ~permissions.isArray THEN Thrown("TypeError")
    ELSE IF \E i \in DOMAIN permissions.items : permissions.items[i].isNull
    THEN Thrown("TypeError")
    ELSE LET portfolioPermissions ==
                 SelectSeq(permissions.items, LAMBDA q : q.type = "PORTFOLIO_VIEW")
             authorizedUnits ==
                 UNION { ScopeUnits(portfolioPermissions[i]) :
                            i \in DOMAIN portfolioPermissions }
         IN  IF Len(portfolioPermissions) = 0 THEN Returned(<< >>)
             ELSE Returned(SelectSeq(ps, LAMBDA project :
                      \/ project.businessUnit \in authorizedUnits
                      \/ "All_Units" \in authorizedUnits))

\* bug: revenue is kept when the caller has no financial access
FilterSensitiveProjectData_KeepsRevenue(ps, permissions) ==
    LET hasFinancialAccess == HasPermissionType(permissions, "FINANCIAL_DATA")
        hasDetailedMetrics == HasPermissionType(permissions, "DETAILED_METRICS")
    IN  IF hasFinancialAccess.threw THEN hasFinancialAccess
        ELSE IF hasDetailedMetrics.threw THEN hasDetailedMetrics
        ELSE Returned([i \in 1..Len(ps) |->
                 Without(ps[i],
                     (IF hasFinancialAccess.value THEN {} ELSE {"budget"})
                         \cup (IF hasDetailedMetrics.value THEN {}
                               ELSE {"detailedMetrics"}))])

\* bug: the copy of a project is built from an allow-list that forgets the counts
FilterSensitiveProjectData_DropsCounts(ps, permissions) ==
    LET hasFinancialAccess == HasPermissionType(permissions, "FINANCIAL_DATA")
        hasDetailedMetrics == HasPermissionType(permissions, "DETAILED_METRICS")
    IN  IF hasFinancialAccess.threw THEN hasFinancialAccess
        ELSE IF hasDetailedMetrics.threw THEN hasDetailedMetrics
        ELSE Returned([i \in 1..Len(ps) |->
                 Without(ps[i],
                     {"overdueIssues", "blockedIssues", "highPriorityIssues"}
                         \cup (IF hasFinancialAccess.value THEN {}
                               ELSE {"budget", "revenue"})
                         \cup (IF hasDetailedMetrics.value THEN {}
                               ELSE {"detailedMetrics"}))])

\* bug: else-if, so one pass removes budget or revenue but not both
FilterSensitiveProjectData_OneFieldPerPass(ps, permissions) ==
    LET hasFinancialAccess == HasPermissionType(permissions, "FINANCIAL_DATA")
        hasDetailedMetrics == HasPermissionType(permissions, "DETAILED_METRICS")
    IN  IF hasFinancialAccess.threw THEN hasFinancialAccess
        ELSE IF hasDetailedMetrics.threw THEN hasDetailedMetrics
        ELSE Returned([i \in 1..Len(ps) |->
                 Without(ps[i],
                     (IF hasFinancialAccess.value THEN {}
                      ELSE IF "budget" \in DOMAIN ps[i] THEN {"budget"}
                      ELSE {"revenue"})
                         \cup (IF hasDetailedMetrics.value THEN {}
                               ELSE {"detailedMetrics"}))])

FilterSensitiveProjectData(ps, permissions) ==
    LET hasFinancialAccess == HasPermissionType(permissions, "FINANCIAL_DATA")
        hasDetailedMetrics == HasPermissionType(permissions, "DETAILED_METRICS")
    IN  IF hasFinancialAccess.threw THEN hasFinancialAccess
        ELSE IF hasDetailedMetrics.threw THEN hasDetailedMetrics
        ELSE Returned([i \in 1..Len(ps) |->
                 Without(ps[i],
                     (IF hasFinancialAccess.value THEN {}
                      ELSE {"budget", "revenue"})
                         \cup (IF hasDetailedMetrics.value THEN {}
                               ELSE {"detailedMetrics"}))])

\* the try block after the permissions have arrived, applied to the working copy
FilterWorkingCopy(data, permissions) ==
    LET scoped ==
            IF "projects" \in DOMAIN data
            THEN FilterProjectsByBusinessUnit(data.projects, permissions)
            ELSE Returned(<< >>)
        redacted ==
            IF scoped.threw \/ "projects" \notin DOMAIN data THEN scoped
            ELSE FilterSensitiveProjectData(scoped.value, permissions)
        withProjects ==
            IF "projects" \in DOMAIN data
            THEN [data EXCEPT !.projects = redacted.value]
            ELSE data
        hasFinancialAccess == HasPermissionType(permissions, "FINANCIAL_DATA")
    IN  IF redacted.threw THEN redacted
        ELSE IF hasFinancialAccess.threw THEN hasFinancialAccess
        ELSE IF hasFinancialAccess.value THEN Returned(withProjects)
        ELSE Returned(Without(withProjects, {"financialData"}))

\* bug: the catch block returns the shape of the service's fallback portfolio
FailSafeResult_FallbackPortfolio ==
    [projects |-> << >>, portfolio |-> GetPortfolioSummary(<< >>),
     criticalAlerts |-> << >>, status |-> "access_denied"]

\* return { projects: [] }
FailSafeResult == [projects |-> << >>]

(***************************************************************************)
(* filterPortfolioDataByPermissions, called on portfolioData and then on   *)
(* its own result; one action per way the awaited getUserPermissions ends. *)
(***************************************************************************)
InitFilter ==
    /\ PortfolioIdle
    /\ AuthIdle
    /\ AuthnIdle
    /\ ServiceIdle
    /\ DashboardIdle
    /\ filterPc = "called"
    /\ userPermissions \in FilterPermissionAnswers
    /\ portfolioData \in PortfolioDataInputs
    /\ originalData = portfolioData
    /\ filteredData = [projects |-> << >>]
    /\ filterOutcome = "none"
    /\ refilteredData = [projects |-> << >>]
    /\ refilterOutcome = "none"

\* bug: the filter reuses the permissions the gate read
FilterPermissionsResolved_UsesGateReading ==
    /\ filterPc = "called"
    /\ LET copy == WorkingCopy(portfolioData)
           outcome == FilterWorkingCopy(copy.value, storedPermissions)
       IN  /\ filteredData' = IF outcome.threw THEN FailSafeResult ELSE outcome.value
           /\ filterOutcome' = IF outcome.threw THEN "caught" ELSE "filtered"
           /\ portfolioData' = IF copy.aliased /\ ~outcome.threw
                               THEN outcome.value ELSE portfolioData
    /\ filterPc' = "returned"
    /\ UNCHANGED <<notFilter, userPermissions, originalData, refilteredData,
                   refilterOutcome>>

\* getUserPermissions resolves: clone, scope, redact, return (or catch)
FilterPermissionsResolved ==
    /\ filterPc = "called"
    /\ LET copy == WorkingCopy(portfolioData)
           outcome == FilterWorkingCopy(copy.value, userPermissions)
       IN  /\ filteredData' = IF outcome.threw THEN FailSafeResult ELSE outcome.value
           /\ filterOutcome' = IF outcome.threw THEN "caught" ELSE "filtered"
           /\ portfolioData' = IF copy.aliased /\ ~outcome.threw
                               THEN outcome.value ELSE portfolioData
    /\ filterPc' = "returned"
    /\ UNCHANGED <<notFilter, userPermissions, originalData, refilteredData,
                   refilterOutcome>>

\* getUserPermissions rejects: the catch block returns the fail-safe result
FilterPermissionsRejected ==
    /\ filterPc = "called"
    /\ filteredData' = FailSafeResult
    /\ filterOutcome' = "provider rejected"
    /\ filterPc' = "returned"
    /\ UNCHANGED <<notFilter, userPermissions, portfolioData, originalData,
                   refilteredData, refilterOutcome>>

\* the second call, on the first call's result: getUserPermissions resolves
RefilterPermissionsResolved ==
    /\ filterPc = "returned"
    /\ LET copy == WorkingCopy(filteredData)
           outcome == FilterWorkingCopy(copy.value, userPermissions)
       IN  /\ refilteredData' = IF outcome.threw THEN FailSafeResult ELSE outcome.value
           /\ refilterOutcome' = IF outcome.threw THEN "caught" ELSE "filtered"
           /\ filteredData' = IF copy.aliased /\ ~outcome.threw
                              THEN outcome.value ELSE filteredData
    /\ filterPc' = "refiltered"
    /\ UNCHANGED <<notFilter, userPermissions, portfolioData, originalData,
                   filterOutcome>>

\* the second call: getUserPermissions rejects
RefilterPermissionsRejected ==
    /\ filterPc = "returned"
    /\ refilteredData' = FailSafeResult
    /\ refilterOutcome' = "provider rejected"
    /\ filterPc' = "refiltered"
    /\ UNCHANGED <<notFilter, userPermissions, portfolioData, originalData,
                   filteredData, filterOutcome>>

NextFilter ==
    \/ FilterPermissionsResolved
    \/ FilterPermissionsRejected
    \/ RefilterPermissionsResolved
    \/ RefilterPermissionsRejected

SpecFilter == InitFilter /\ [][NextFilter]_vars

(***************************************************************************)
(* PortfolioService.getExecutivePortfolio: the gate, the data source, the  *)
(* filter and the audit sink, one action per stretch between two awaits.   *)
(***************************************************************************)
ServiceUserIdInputs == {JsNull, "user-001", "exec-ceo-001", "exec-sales-001"}

ServiceTokenInputs == {JsNull, "auth-token-12345"}

\* what getUserPermissions can resolve to while the service runs
ServicePermissionAnswers ==
    { [isArray |-> TRUE, items |-> l] :
        l \in { << >>,
                <<Permission("PORTFOLIO_VIEW", {"All_Units"})>>,
                <<Permission("PORTFOLIO_VIEW", {"Corporate"})>>,
                <<Permission("PORTFOLIO_VIEW", {"Sales"}),
                  Permission("FINANCIAL_DATA", {"Corporate"})>>,
                <<NullPermission>> } }
        \cup { [isArray |-> FALSE, items |-> << >>] }

\* what getExecutiveProjects can resolve to
JiraProjectLists ==
    { << >>,
      <<[key |-> "EXEC", name |-> "Executive Dashboard", id |-> "10001",
         projectTypeKey |-> "software", leadAccountId |-> "acc-1",
         description |-> ""]>>,
      <<[key |-> "EXEC", name |-> "Executive Dashboard", id |-> "10001",
         projectTypeKey |-> "software", leadAccountId |-> "acc-1",
         description |-> ""],
        [key |-> "SALES", name |-> "Sales Pipeline", id |-> "10002",
         projectTypeKey |-> "business", leadAccountId |-> JsUndefined,
         description |-> "", businessUnit |-> "Sales"]>> }

\* what getProjectHealthMetrics can resolve to
HealthMetricsInputs ==
    { [overdueIssues |-> 0, blockedIssues |-> 0, highPriorityIssues |-> 0,
       lastCalculated |-> "2024-01-01T00:00:00.000Z"],
      [overdueIssues |-> 7, blockedIssues |-> 4, highPriorityIssues |-> 13,
       lastCalculated |-> "2024-01-01T00:00:00.000Z"] }

\* value.includes(part), for strings
Includes(value, part) ==
    \E i \in 1..(Len(value) - Len(part) + 1) :
        SubSeq(value, i, i + Len(part) - 1) = part

\* _getExecutiveBusinessUnit
GetExecutiveBusinessUnit(userId) ==
    IF Includes(userId, "ceo") \/ Includes(userId, "cfo") THEN "Corporate"
    ELSE IF Includes(userId, "sales") THEN "Sales"
    ELSE IF Includes(userId, "engineering") THEN "Engineering"
    ELSE "Corporate"

\* bug: the catch-all business unit is a value no scope names
EnhanceProject_DefaultsUnassigned(project, healthMetrics) ==
    LET withUnit ==
            [f \in DOMAIN project \cup {"businessUnit"} |->
                IF f # "businessUnit" THEN project[f]
                ELSE IF "businessUnit" \in DOMAIN project /\ project.businessUnit # ""
                THEN project.businessUnit
                ELSE "Unassigned"]
    IN  [f \in DOMAIN withUnit \cup DOMAIN healthMetrics |->
            IF f \in DOMAIN healthMetrics THEN healthMetrics[f] ELSE withUnit[f]]

\* { ...project, businessUnit: project.businessUnit || 'Corporate', ...healthMetrics }
EnhanceProject(project, healthMetrics) ==
    LET withUnit ==
            [f \in DOMAIN project \cup {"businessUnit"} |->
                IF f # "businessUnit" THEN project[f]
                ELSE IF "businessUnit" \in DOMAIN project /\ project.businessUnit # ""
                THEN project.businessUnit
                ELSE "Corporate"]
    IN  [f \in DOMAIN withUnit \cup DOMAIN healthMetrics |->
            IF f \in DOMAIN healthMetrics THEN healthMetrics[f] ELSE withUnit[f]]

\* _getSecureFallbackPortfolio
SecureFallbackPortfolio ==
    [projects |-> << >>,
     portfolio |-> [totalProjects |-> 0, healthScore |-> 0, criticalAlerts |-> 0,
                    onTrackProjects |-> 0, atRiskProjects |-> 0],
     criticalAlerts |-> << >>,
     lastUpdated |-> "2024-01-01T00:00:00.000Z",
     status |-> "access_denied"]

InitService ==
    /\ PortfolioIdle
    /\ AuthnIdle
    /\ pc = "idle"
    /\ authToken = ""
    /\ executiveUserId = ""
    /\ businessUnit = ""
    /\ storedPermissions \in ServicePermissionAnswers
    /\ pendingEvent = [result |-> "NONE"]
    /\ handler = "try"
    /\ afterLog = FALSE
    /\ auditLog = << >>
    /\ auditCalls = << >>
    /\ providerCalls = 0
    /\ result = FALSE
    /\ filterPc = "idle"
    /\ userPermissions \in ServicePermissionAnswers
    /\ portfolioData = [projects |-> << >>]
    /\ originalData = [projects |-> << >>]
    /\ filteredData = [projects |-> << >>]
    /\ filterOutcome = "none"
    /\ refilteredData = [projects |-> << >>]
    /\ refilterOutcome = "none"
    /\ servicePc = "called"
    /\ serviceUserId \in ServiceUserIdInputs
    /\ serviceToken \in ServiceTokenInputs
    /\ fetchedProjects = << >>
    /\ jiraCalls = 0
    /\ serviceEvents = << >>
    /\ serviceResult = [projects |-> << >>]
    /\ DashboardIdle

\* catch (error): await logSecurityEvent, then return the fallback portfolio
DenyAccess(reason) ==
    /\ serviceEvents' =
          Append(serviceEvents,
                 [userId |-> serviceUserId, event |-> "PORTFOLIO_ACCESS_DENIED",
                  reason |-> reason])
    /\ servicePc' = "denying"

\* from the call to the call of authorizePortfolioAccess
CheckTokenAndAuthorize ==
    /\ servicePc = "called"
    /\ IF Falsy(serviceToken)
       THEN /\ DenyAccess("Authentication token required for portfolio access")
            /\ UNCHANGED <<pc, authToken, executiveUserId, businessUnit>>
       ELSE IF serviceUserId = JsNull
       THEN /\ DenyAccess("TypeError")
            /\ UNCHANGED <<pc, authToken, executiveUserId, businessUnit>>
       ELSE /\ pc' = "called"
            /\ authToken' = serviceToken
            /\ executiveUserId' = serviceUserId
            /\ businessUnit' = GetExecutiveBusinessUnit(serviceUserId)
            /\ servicePc' = "authorizing"
            /\ UNCHANGED serviceEvents
    /\ UNCHANGED <<pvars, nvars, fvars, dvars, storedPermissions, pendingEvent, handler,
                   afterLog, auditLog, auditCalls, providerCalls, result,
                   serviceUserId, serviceToken, fetchedProjects, jiraCalls,
                   serviceResult>>

\* bug: the data is fetched whatever the gate answered
GateReturned_PostFilter ==
    /\ servicePc = "authorizing"
    /\ pc = "returned"
    /\ servicePc' = "fetching"
    /\ UNCHANGED serviceEvents
    /\ UNCHANGED <<pvars, avars, nvars, fvars, dvars, serviceUserId, serviceToken,
                   fetchedProjects, jiraCalls, serviceResult>>

\* authorizePortfolioAccess resolves: if (!isAuthorized) throw, else fetch
GateReturned ==
    /\ servicePc = "authorizing"
    /\ pc = "returned"
    /\ IF result
       THEN /\ servicePc' = "fetching"
            /\ UNCHANGED serviceEvents
       ELSE DenyAccess("Unauthorized access to portfolio data")
    /\ UNCHANGED <<pvars, avars, nvars, fvars, dvars, serviceUserId, serviceToken,
                   fetchedProjects, jiraCalls, serviceResult>>

\* authorizePortfolioAccess rejects
GateThrew ==
    /\ servicePc = "authorizing"
    /\ pc = "threw"
    /\ DenyAccess("Audit service unavailable")
    /\ UNCHANGED <<pvars, avars, nvars, fvars, dvars, serviceUserId, serviceToken,
                   fetchedProjects, jiraCalls, serviceResult>>

\* getExecutiveProjects resolves; getProjectHealthMetrics is called per project
ProjectsFetched(ps) ==
    /\ servicePc = "fetching"
    /\ fetchedProjects' = ps
    /\ jiraCalls' = jiraCalls + 1 + Len(ps)
    /\ servicePc' = "measuring"
    /\ UNCHANGED <<pvars, avars, nvars, fvars, dvars, serviceUserId, serviceToken,
                   serviceEvents, serviceResult>>

\* getExecutiveProjects rejects
ProjectsRejected ==
    /\ servicePc = "fetching"
    /\ jiraCalls' = jiraCalls + 1
    /\ DenyAccess("Jira service unavailable")
    /\ UNCHANGED <<pvars, avars, nvars, fvars, dvars, serviceUserId, serviceToken,
                   fetchedProjects, serviceResult>>

\* every getProjectHealthMetrics resolves: the raw data is built and handed
\* to filterPortfolioDataByPermissions
MetricsFetched(metrics) ==
    /\ servicePc = "measuring"
    /\ LET enhancedProjects ==
               [i \in 1..Len(fetchedProjects) |->
                   EnhanceProject(fetchedProjects[i], metrics[i])]
       IN  /\ portfolioData' = RawPortfolioData(enhancedProjects)
           /\ originalData' = portfolioData'
    /\ filterPc' = "called"
    /\ servicePc' = "filtering"
    /\ UNCHANGED <<pvars, avars, nvars, dvars, userPermissions, filteredData,
                   filterOutcome, refilteredData, refilterOutcome, serviceUserId,
                   serviceToken, fetchedProjects, jiraCalls, serviceEvents,
                   serviceResult>>

\* some getProjectHealthMetrics rejects
MetricsRejected ==
    /\ servicePc = "measuring"
    /\ Len(fetchedProjects) > 0
    /\ DenyAccess("Jira service unavailable")
    /\ UNCHANGED <<pvars, avars, nvars, fvars, dvars, serviceUserId, serviceToken,
                   fetchedProjects, jiraCalls, serviceResult>>

\* bug: the audit event counts the projects before filtering
FilterReturned_CountsRawProjects ==
    /\ servicePc = "filtering"
    /\ filterPc = "returned"
    /\ serviceEvents' =
          Append(serviceEvents,
                 [userId |-> serviceUserId, resource |-> "EXECUTIVE_PORTFOLIO",
                  action |-> "read", businessUnit |-> businessUnit,
                  projectCount |-> Len(portfolioData.projects)])
    /\ servicePc' = "logging access"
    /\ UNCHANGED <<pvars, avars, nvars, fvars, dvars, serviceUserId, serviceToken,
                   fetchedProjects, jiraCalls, serviceResult>>

\* filterPortfolioDataByPermissions resolves: await logDataAccessEvent
FilterReturned ==
    /\ servicePc = "filtering"
    /\ filterPc = "returned"
    /\ serviceEvents' =
          Append(serviceEvents,
                 [userId |-> serviceUserId, resource |-> "EXECUTIVE_PORTFOLIO",
                  action |-> "read", businessUnit |-> businessUnit,
                  projectCount |-> Len(filteredData.projects)])
    /\ servicePc' = "logging access"
    /\ UNCHANGED <<pvars, avars, nvars, fvars, dvars, serviceUserId, serviceToken,
                   fetchedProjects, jiraCalls, serviceResult>>

\* logDataAccessEvent resolves: return filteredPortfolioData
DataAccessLogged ==
    /\ servicePc = "logging access"
    /\ serviceResult' = filteredData
    /\ servicePc' = "returned"
    /\ UNCHANGED <<pvars, avars, nvars, fvars, dvars, serviceUserId, serviceToken,
                   fetchedProjects, jiraCalls, serviceEvents>>

\* logDataAccessEvent rejects
DataAccessLogFailed ==
    /\ servicePc = "logging access"
    /\ DenyAccess("Audit service unavailable")
    /\ UNCHANGED <<pvars, avars, nvars, fvars, dvars, serviceUserId, serviceToken,
                   fetchedProjects, jiraCalls, serviceResult>>

\* logSecurityEvent resolves: return this._getSecureFallbackPortfolio()
SecurityEventLogged ==
    /\ servicePc = "denying"
    /\ serviceResult' = SecureFallbackPortfolio
    /\ servicePc' = "returned"
    /\ UNCHANGED <<pvars, avars, nvars, fvars, dvars, serviceUserId, serviceToken,
                   fetchedProjects, jiraCalls, serviceEvents>>

\* logSecurityEvent rejects inside the catch block: the call rejects
SecurityEventLogFailed ==
    /\ servicePc = "denying"
    /\ servicePc' = "threw"
    /\ UNCHANGED <<pvars, avars, nvars, fvars, dvars, serviceUserId, serviceToken,
                   fetchedProjects, jiraCalls, serviceEvents, serviceResult>>

NextService ==
    \/ CheckTokenAndAuthorize
    \/ ValidateArguments
    \/ PermissionsResolved
    \/ PermissionsRejected
    \/ AuditRecorded
    \/ AuditFailed
    \/ GateReturned
    \/ GateThrew
    \/ \E ps \in JiraProjectLists : ProjectsFetched(ps)
    \/ ProjectsRejected
    \/ \E metrics \in [1..Len(fetchedProjects) -> HealthMetricsInputs] :
          MetricsFetched(metrics)
    \/ MetricsRejected
    \/ FilterPermissionsResolved
    \/ FilterPermissionsRejected
    \/ FilterReturned
    \/ DataAccessLogged
    \/ DataAccessLogFailed
    \/ SecurityEventLogged
    \/ SecurityEventLogFailed

SpecService == InitService /\ [][NextService]_vars

(***************************************************************************)
(* The dashboard path: ForgeJiraAdapter, PortfolioService                  *)
(* .getExecutiveDashboard and DashboardResolver.resolveDashboard.          *)
(***************************************************************************)
\* how the platform can answer GET /rest/api/3/myself
MyselfResponses ==
    { [kind |-> "ok", accountId |-> "acc-ceo", displayName |-> "Chief Executive"],
      [kind |-> "status"],
      [kind |-> "rejected"] }

\* the entries of data.values of a project search
JiraProjects ==
    { [key |-> "EXEC", name |-> "Executive Dashboard", id |-> "10001",
       projectTypeKey |-> "software", lead |-> [accountId |-> "acc-1"],
       description |-> "Board reporting"],
      [key |-> "SALES", name |-> "Sales Pipeline", id |-> "10002",
       projectTypeKey |-> "business"] }

\* how the platform can answer the project search: a page of projects, a body
\* without values, an error status, or a failed request
ProjectSearchResponses ==
    { [kind |-> "ok", values |-> l] :
        l \in { << >>,
                <<CHOOSE p \in JiraProjects : p.key = "EXEC">>,
                <<CHOOSE p \in JiraProjects : p.key = "SALES">>,
                <<CHOOSE p \in JiraProjects : p.key = "EXEC",
                  CHOOSE p \in JiraProjects : p.key = "SALES">> } }
        \cup { [kind |-> "malformed"], [kind |-> "status"], [kind |-> "rejected"] }

\* how the platform can answer an issue count search
CountResponses ==
    { [kind |-> "ok", total |-> 7], [kind |-> "status"], [kind |-> "rejected"] }

\* the three count searches of one project
ProjectCountResponses ==
    [overdue : CountResponses, blocked : CountResponses, highPriority : CountResponses]

\* ForgeJiraAdapter.getCurrentUser
GetCurrentUser(response) ==
    IF response.kind = "ok"
    THEN [accountId |-> response.accountId, displayName |-> response.displayName]
    ELSE [accountId |-> "unknown", displayName |-> "Executive User"]

\* the mapping of one entry of data.values
MapJiraProject(project) ==
    [key |-> project.key, name |-> project.name, id |-> project.id,
     projectTypeKey |-> project.projectTypeKey,
     leadAccountId |-> IF "lead" \in DOMAIN project THEN project.lead.accountId
                       ELSE JsUndefined,
     description |-> IF "description" \in DOMAIN project THEN project.description
                     ELSE ""]

\* bug: a failed project search falls back to a sample project
GetExecutiveProjects_SampleFallback(response) ==
    IF response.kind = "ok"
    THEN [i \in 1..Len(response.values) |-> MapJiraProject(response.values[i])]
    ELSE <<MapJiraProject(CHOOSE p \in JiraProjects : p.key = "EXEC")>>

\* ForgeJiraAdapter.getExecutiveProjects: every failure ends in the catch block
GetExecutiveProjects(response) ==
    IF response.kind = "ok"
    THEN [i \in 1..Len(response.values) |-> MapJiraProject(response.values[i])]
    ELSE << >>

\* _getOverdueIssuesCount, _getBlockedIssuesCount, _getHighPriorityIssuesCount
GetIssuesCount(response) ==
    IF response.kind = "ok" THEN response.total ELSE 0

\* ForgeJiraAdapter.getProjectHealthMetrics
GetProjectHealthMetrics(responses) ==
    [overdueIssues |-> GetIssuesCount(responses.overdue),
     blockedIssues |-> GetIssuesCount(responses.blocked),
     highPriorityIssues |-> GetIssuesCount(responses.highPriority),
     lastCalculated |-> "2024-01-01T00:00:00.000Z"]

\* { ...project, ...healthMetrics }
MergeHealthMetrics(project, healthMetrics) ==
    [f \in DOMAIN project \cup DOMAIN healthMetrics |->
        IF f \in DOMAIN healthMetrics THEN healthMetrics[f] ELSE project[f]]

InitDashboard ==
    /\ PortfolioIdle
    /\ AuthIdle
    /\ AuthnIdle
    /\ FilterIdle
    /\ ServiceIdle
    /\ dashPc = "called"
    /\ jiraUser = [accountId |-> "unknown"]
    /\ projectResponse = [kind |-> "none"]
    /\ dashProjects = << >>
    /\ countResponses = << >>
    /\ dashEnhanced = << >>
    /\ dashboard = [criticalAlerts |-> << >>]

\* resolveDashboard calls getExecutiveDashboard; getCurrentUser resolves
CurrentUserFetched(response) ==
    /\ dashPc = "called"
    /\ jiraUser' = GetCurrentUser(response)
    /\ dashPc' = "fetching projects"
    /\ UNCHANGED <<notDashboard, projectResponse, dashProjects, countResponses,
                   dashEnhanced, dashboard>>

\* getExecutiveProjects resolves
ExecutiveProjectsFetched(response) ==
    /\ dashPc = "fetching projects"
    /\ projectResponse' = response
    /\ dashProjects' = GetExecutiveProjects(response)
    /\ dashPc' = "fetching metrics"
    /\ UNCHANGED <<notDashboard, jiraUser, countResponses, dashEnhanced, dashboard>>

\* every getProjectHealthMetrics resolves: the portfolio is built, the
\* dashboard returned and resolveDashboard adds its performance section
HealthMetricsFetched(responses) ==
    /\ dashPc = "fetching metrics"
    /\ countResponses' = responses
    /\ dashEnhanced' =
          [i \in 1..Len(dashProjects) |->
              MergeHealthMetrics(dashProjects[i],
                                 GetProjectHealthMetrics(responses[i]))]
    /\ dashboard' =
          [executive |-> [name |-> jiraUser.displayName,
                          accountId |-> jiraUser.accountId],
           portfolio |-> GetPortfolioSummary(dashEnhanced'),
           criticalAlerts |-> GetCriticalAlerts(dashEnhanced'),
           lastUpdated |-> "2024-01-01T00:00:00.000Z",
           performance |-> [timestamp |-> "2024-01-01T00:00:00.000Z"]]
    /\ dashPc' = "resolved"
    /\ UNCHANGED <<notDashboard, jiraUser, projectResponse, dashProjects>>

NextDashboard ==
    \/ \E response \in MyselfResponses : CurrentUserFetched(response)
    \/ \E response \in ProjectSearchResponses : ExecutiveProjectsFetched(response)
    \/ \E responses \in [1..Len(dashProjects) -> ProjectCountResponses] :
          HealthMetricsFetched(responses)

SpecDashboard == InitDashboard /\ [][NextDashboard]_vars

(***************************************************************************)
(* Properties of the per-project rules.                                    *)
(***************************************************************************)
\* the project a per-project method was called with
Called == projects[arg]

\* the score the stated formula gives: no guards, the three capped deductions, the clamp
StatedScore(o, b, h) ==
    Max(0, 100 - Min(30, 5 * o) - Min(20, 3 * b) - Min(25, 2 * h))

\* C1: for non-negative integer counts the per-project health score is an
\* integer between 0 and 100 (and computing it never fails).
C1_ScoreInRange ==
    op = "_calculateProjectHealth" => ret \in 0..100

\* a call whose three deductions all reached their caps
C1_Witness ==
    /\ op = "_calculateProjectHealth"
    /\ Called.overdueIssues > 6
    /\ Called.blockedIssues > 6
    /\ Called.highPriorityIssues > 12
    /\ ret = 25

\* C2: the per-project health score is
\* max(0, 100 - min(30, 5*o) - min(20, 3*b) - min(25, 2*h)); it is 100 for
\* (0,0,0), 70 for (7,0,0) and 88 for (0,4,0).
C2_ScoreFormula ==
    op = "_calculateProjectHealth" =>
        LET o == Called.overdueIssues
            b == Called.blockedIssues
            h == Called.highPriorityIssues
        IN  /\ ret = StatedScore(o, b, h)
            /\ (o = 0 /\ b = 0 /\ h = 0) => ret = 100
            /\ (o = 7 /\ b = 0 /\ h = 0) => ret = 70
            /\ (o = 0 /\ b = 4 /\ h = 0) => ret = 88

\* the call on (0,4,0), which scores 88
C2_Witness ==
    /\ op = "_calculateProjectHealth"
    /\ Called.overdueIssues = 0
    /\ Called.blockedIssues = 4
    /\ Called.highPriorityIssues = 0
    /\ ret = 88

\* q differs from p only in that one count is larger
OneCountLarger(p, q) ==
    /\ q.key = p.key /\ q.name = p.name
    /\ \/ /\ q.overdueIssues > p.overdueIssues
          /\ q.blockedIssues = p.blockedIssues
          /\ q.highPriorityIssues = p.highPriorityIssues
       \/ /\ q.overdueIssues = p.overdueIssues
          /\ q.blockedIssues > p.blockedIssues
          /\ q.highPriorityIssues = p.highPriorityIssues
       \/ /\ q.overdueIssues = p.overdueIssues
          /\ q.blockedIssues = p.blockedIssues
          /\ q.highPriorityIssues > p.highPriorityIssues

\* C3: the per-project health score does not increase when one issue count
\* grows and the other two stay as they are.
C3_ScoreMonotone ==
    op = "_calculateProjectHealth" =>
        \A q \in AllProjects :
            OneCountLarger(Called, q) => CalculateProjectHealth(q) <= ret

\* a call on a project some larger project scores strictly below
C3_Witness ==
    /\ op = "_calculateProjectHealth"
    /\ \E q \in AllProjects :
          OneCountLarger(Called, q) /\ CalculateProjectHealth(q) < ret

\* C4: a project is critical exactly when its score is below 50, or its
\* overdue count is above 5, or its blocked count is above 3; all counts 0 is
\* never critical; overdue 7 alone scores 70 and is critical.
C4_CriticalIffAnyTrigger ==
    op = "_isProjectCritical" =>
        LET o == Called.overdueIssues
            b == Called.blockedIssues
            h == Called.highPriorityIssues
        IN  /\ ret = (StatedScore(o, b, h) < 50 \/ o > 5 \/ b > 3)
            /\ (o = 0 /\ b = 0 /\ h = 0) => ret = FALSE
            /\ (o = 7 /\ b = 0 /\ h = 0) => ret = TRUE

\* a project found critical although its score is 50 or more
C4_Witness ==
    /\ op = "_isProjectCritical"
    /\ ret = TRUE
    /\ StatedScore(Called.overdueIssues, Called.blockedIssues,
                   Called.highPriorityIssues) >= 50

\* C5: the critical reason is the first match of: overdue > 5 ->
\* "<overdue> overdue issues"; blocked > 3 -> "<blocked> blocked issues";
\* score < 50 -> "Overall health below 50%"; else "Multiple risk factors".
C5_ReasonFirstMatch ==
    op = "_getCriticalReason" =>
        LET o == Called.overdueIssues
            b == Called.blockedIssues
            h == Called.highPriorityIssues
        IN  /\ o > 5 => ret = NumberToString(o) \o " overdue issues"
            /\ (o <= 5 /\ b > 3) => ret = NumberToString(b) \o " blocked issues"
            /\ (o <= 5 /\ b <= 3 /\ StatedScore(o, b, h) < 50) =>
                   ret = "Overall health below 50%"
            /\ (o <= 5 /\ b <= 3 /\ StatedScore(o, b, h) >= 50) =>
                   ret = "Multiple risk factors"
            /\ o = 7 => ret = "7 overdue issues"
            /\ (o = 0 /\ b = 4) => ret = "4 blocked issues"

\* all three triggers hold and the overdue one is reported
C5_Witness ==
    /\ op = "_getCriticalReason"
    /\ Called.overdueIssues = 7
    /\ Called.blockedIssues > 3
    /\ StatedScore(Called.overdueIssues, Called.blockedIssues,
                   Called.highPriorityIssues) < 50
    /\ ret = "7 overdue issues"

(***************************************************************************)
(* Properties of the portfolio rules.                                      *)
(***************************************************************************)
RECURSIVE SumOfScores(_)
\* the sum of the per-project scores of the indices in I
SumOfScores(I) ==
    IF I = {} THEN 0
    ELSE LET i == CHOOSE x \in I : TRUE
         IN  CalculateProjectHealth(projects[i]) + SumOfScores(I \ {i})

\* r is an integer nearest to total / n
NearestTo(r, total, n) ==
    /\ r \in Int
    /\ 2 * (IF n * r >= total THEN n * r - total ELSE total - n * r) <= n

\* C6: the portfolio health score is the mean of the per-project scores
\* rounded to the nearest integer, 0 for an empty project list, and always an
\* integer between 0 and 100; the summary of an empty portfolio has no critical
\* alerts, 0 on-track and 0 at-risk projects.
C6_PortfolioScoreIsRoundedMean ==
    LET n == Len(projects)
        score == IF op = "calculateHealthScore" THEN ret ELSE ret.healthScore
    IN  op \in {"calculateHealthScore", "getPortfolioSummary"} =>
            /\ score \in 0..100
            /\ n = 0 => score = 0
            /\ n > 0 => NearestTo(score, SumOfScores(DOMAIN projects), n)
            /\ (n = 0 /\ op = "getPortfolioSummary") =>
                   /\ ret.criticalAlerts = 0
                   /\ ret.onTrackProjects = 0
                   /\ ret.atRiskProjects = 0

\* a mean that is not an integer: three projects scoring 290 in all give 97
C6_Witness ==
    /\ op = "calculateHealthScore"
    /\ Len(projects) = 3
    /\ SumOfScores(DOMAIN projects) = 290
    /\ ret = 97

\* C7: on-track (score >= 70) plus at-risk (score < 70) is the number of
\* projects; a project scoring exactly 70 is on-track.
C7_BucketsPartitionProjects ==
    op = "getPortfolioSummary" =>
        /\ ret.onTrackProjects + ret.atRiskProjects = Len(projects)
        /\ ret.totalProjects = Len(projects)
        /\ ret.onTrackProjects =
              Cardinality({ i \in DOMAIN projects :
                              CalculateProjectHealth(projects[i]) >= 70 })
        /\ ret.atRiskProjects =
              Cardinality({ i \in DOMAIN projects :
                              CalculateProjectHealth(projects[i]) < 70 })

\* a summary of a portfolio with a project scoring exactly 70 and one below
C7_Witness ==
    /\ op = "getPortfolioSummary"
    /\ \E i \in DOMAIN projects : CalculateProjectHealth(projects[i]) = 70
    /\ \E i \in DOMAIN projects : CalculateProjectHealth(projects[i]) < 70
    /\ ret.onTrackProjects > 0
    /\ ret.atRiskProjects > 0

\* the indices of the critical projects
CriticalIndices == { i \in DOMAIN projects : IsProjectCritical(projects[i]) }

\* the k-th critical project, in list order
KthCritical(k) ==
    CHOOSE i \in CriticalIndices :
        Cardinality({ j \in CriticalIndices : j <= i }) = k

\* C8: getCriticalAlerts gives one alert per critical project and none for the
\* others, in the order of the project list; each alert has the project's key
\* and name, alertLevel "CRITICAL" and the reason of the critical-reason rule.
C8_OneAlertPerCriticalProject ==
    op = "getCriticalAlerts" =>
        /\ Len(ret) = Cardinality(CriticalIndices)
        /\ \A k \in 1..Len(ret) :
              LET project == projects[KthCritical(k)]
              IN  /\ ret[k].projectKey = project.key
                  /\ ret[k].projectName = project.name
                  /\ ret[k].alertLevel = "CRITICAL"
                  /\ ret[k].reason = GetCriticalReason(project)

\* a critical project, then one that is not, then a critical one with another key
C8_Witness ==
    /\ op = "getCriticalAlerts"
    /\ Len(projects) = 3
    /\ Len(ret) = 2
    /\ ~IsProjectCritical(projects[2])
    /\ ret[1].projectKey = projects[1].key
    /\ ret[2].projectKey = projects[3].key
    /\ ret[1].projectKey # ret[2].projectKey
    /\ ret[1].reason # ret[2].reason

(***************************************************************************)
(* Properties of authorizePortfolioAccess.                                 *)
(***************************************************************************)
\* the call has completed, with a value or with an exception
Completed == pc \in {"returned", "threw"}

\* the caller's permission list has a PORTFOLIO_VIEW entry whose scope holds
\* the requested business unit or 'All_Units'
HasMatchingGrant ==
    /\ storedPermissions.isArray
    /\ \E i \in DOMAIN storedPermissions.items :
          LET p == storedPermissions.items[i]
          IN  /\ ~p.isNull
              /\ p.type = "PORTFOLIO_VIEW"
              /\ p.hasScope
              /\ (businessUnit \in p.scope \/ "All_Units" \in p.scope)

\* C9: authorizePortfolioAccess returns false whenever the permission list has
\* no PORTFOLIO_VIEW entry whose scope holds the business unit or 'All_Units';
\* it returns true only with a non-empty token, a user id starting with 'exec-'
\* and such an entry.
C9_FalseWithoutMatchingGrant ==
    Completed =>
        /\ ~HasMatchingGrant => (pc = "returned" /\ result = FALSE)
        /\ (pc = "returned" /\ result = TRUE) =>
              /\ authToken \notin {JsNull, ""}
              /\ executiveUserId \in {"exec-ceo-001", "exec-"}
              /\ HasMatchingGrant

\* C10: authorizePortfolioAccess never throws, whatever its inputs and
\* whatever the permission provider and the audit sink do.
C10_NeverThrows == pc # "threw"

\* the reason the first failing check gives
DenialReasonOfFirstFailingCheck ==
    IF authToken \in {JsNull, ""} THEN "Invalid authentication token"
    ELSE IF executiveUserId \notin {"exec-ceo-001", "exec-"}
    THEN "Invalid executive user ID format"
    ELSE IF ~(/\ storedPermissions.isArray
              /\ \E i \in DOMAIN storedPermissions.items :
                    /\ ~storedPermissions.items[i].isNull
                    /\ storedPermissions.items[i].type = "PORTFOLIO_VIEW")
    THEN "No portfolio view permissions"
    ELSE "Insufficient permissions for business unit"

\* the token check or the user-id check fails
ArgumentCheckFails ==
    authToken \in {JsNull, ""} \/ executiveUserId \notin {"exec-ceo-001", "exec-"}

\* the permission list is an array of objects that all have a scope
WellFormedPermissions ==
    /\ storedPermissions.isArray
    /\ \A i \in DOMAIN storedPermissions.items :
          ~storedPermissions.items[i].isNull /\ storedPermissions.items[i].hasScope

\* C19 as stated: every false result comes with exactly one audit event, whose
\* reason is that of the first failing check (token, user id, PORTFOLIO_VIEW
\* entry, matching scope); every true result comes with exactly one
\* 'AUTHORIZED' event; the provider is not consulted when the token or user-id
\* check fails.
C19_OneDenialReasonByFirstFailingCheck ==
    pc = "returned" =>
        /\ Len(auditCalls) = 1
        /\ result = TRUE => auditCalls[1].result = "AUTHORIZED"
        /\ (result = FALSE /\ (ArgumentCheckFails \/ ~HasMatchingGrant)) =>
              auditCalls[1].reason = DenialReasonOfFirstFailingCheck
        /\ ArgumentCheckFails => providerCalls = 0

\* C19 as amended: every result comes with exactly one recorded audit event.
\* For true it is 'AUTHORIZED'. For false it is either 'DENIED' with the
\* reason of the first failing check and no other audit call made, or 'ERROR'
\* with the error's message, which happens only when the provider rejected,
\* the permission list is malformed or the audit sink rejected the first
\* event. The provider is not consulted when the token or user-id check fails.
C19_OneRecordedEventPerResult ==
    pc = "returned" =>
        /\ Len(auditLog) = 1
        /\ result = TRUE =>
              /\ auditLog[1] = [userId |-> executiveUserId,
                                resource |-> "PORTFOLIO_DATA", action |-> "READ",
                                businessUnit |-> businessUnit,
                                result |-> "AUTHORIZED"]
              /\ Len(auditCalls) = 1
        /\ result = FALSE =>
              /\ auditLog[1].result \in {"DENIED", "ERROR"}
              /\ auditLog[1].userId = executiveUserId
              /\ auditLog[1].businessUnit = businessUnit
              /\ auditLog[1].result = "DENIED" =>
                    /\ auditLog[1].reason = DenialReasonOfFirstFailingCheck
                    /\ Len(auditCalls) = 1
              /\ auditLog[1].result = "ERROR" =>
                    \/ /\ auditLog[1].reason = "Audit service unavailable"
                       /\ Len(auditCalls) = 2
                    \/ /\ auditLog[1].reason = "User service unavailable"
                       /\ providerCalls = 1
                       /\ Len(auditCalls) = 1
                    \/ /\ auditLog[1].reason = "TypeError"
                       /\ ~WellFormedPermissions
                       /\ Len(auditCalls) = 1
        /\ ArgumentCheckFails => providerCalls = 0
        /\ ~ArgumentCheckFails => providerCalls = 1

\* a denial for a business unit outside the caller's PORTFOLIO_VIEW scopes
C19_Witness ==
    /\ pc = "returned"
    /\ result = FALSE
    /\ providerCalls = 1
    /\ Len(auditLog) = 1
    /\ auditLog[1].result = "DENIED"
    /\ auditLog[1].reason = "Insufficient permissions for business unit"

(***************************************************************************)
(* Properties of filterPortfolioDataByPermissions.                         *)
(***************************************************************************)
FirstCallDone == filterPc \in {"returned", "refiltered"}

\* the caller holds a permission of this type
Holds(type) ==
    /\ userPermissions.isArray
    /\ \E i \in DOMAIN userPermissions.items :
          /\ ~userPermissions.items[i].isNull
          /\ userPermissions.items[i].type = type

\* the union of the caller's PORTFOLIO_VIEW scopes
GrantedUnits ==
    IF ~userPermissions.isArray THEN {}
    ELSE UNION { userPermissions.items[i].scope :
                    i \in { j \in DOMAIN userPermissions.items :
                              /\ ~userPermissions.items[j].isNull
                              /\ userPermissions.items[j].type = "PORTFOLIO_VIEW"
                              /\ userPermissions.items[j].hasScope } }

MayView(project) ==
    /\ Holds("PORTFOLIO_VIEW")
    /\ project.businessUnit \in GrantedUnits \/ "All_Units" \in GrantedUnits

\* the projects passed in, and those of them the caller's scopes cover
InputProjects ==
    IF "projects" \in DOMAIN originalData THEN originalData.projects ELSE << >>

Survivors == SelectSeq(InputProjects, MayView)

OutputProjects ==
    IF "projects" \in DOMAIN filteredData THEN filteredData.projects ELSE << >>

KeysOf(ps) == [i \in 1..Len(ps) |-> ps[i].key]

\* C12: every project the filter returns has its businessUnit in the union of
\* the caller's PORTFOLIO_VIEW scopes, or some PORTFOLIO_VIEW scope contains
\* 'All_Units'; without a PORTFOLIO_VIEW permission no project is returned;
\* a call that raised no error returns the covered projects in input order.
C12_OnlyProjectsOfGrantedUnits ==
    FirstCallDone =>
        /\ \A i \in DOMAIN OutputProjects : MayView(OutputProjects[i])
        /\ ~Holds("PORTFOLIO_VIEW") => OutputProjects = << >>
        /\ filterOutcome = "filtered" => KeysOf(OutputProjects) = KeysOf(Survivors)

\* a Sales scope keeps the Sales project of a Sales and Engineering portfolio
C12_Witness ==
    /\ filterPc = "returned"
    /\ filterOutcome = "filtered"
    /\ ~("All_Units" \in GrantedUnits)
    /\ KeysOf(InputProjects) = <<"CRM", "PLAT">>
    /\ KeysOf(OutputProjects) = <<"CRM">>

\* the fields of the named set are the same in both project records
SameFields(before, after, fields) ==
    \A f \in fields :
        /\ Defined(before, f) = Defined(after, f)
        /\ Defined(before, f) => before[f] = after[f]

\* C13: a returned project carries budget or revenue only if the caller holds
\* a FINANCIAL_DATA permission and detailedMetrics only if the caller holds a
\* DETAILED_METRICS permission, of whatever scope; with the permission the
\* fields are as they were in the input.
C13_SensitiveFieldsNeedPermission ==
    FirstCallDone =>
        \A i \in DOMAIN OutputProjects :
            LET after == OutputProjects[i]
            IN  /\ ("budget" \in DOMAIN after \/ "revenue" \in DOMAIN after)
                       => Holds("FINANCIAL_DATA")
                /\ "detailedMetrics" \in DOMAIN after => Holds("DETAILED_METRICS")
                /\ i \in DOMAIN Survivors
                /\ Holds("FINANCIAL_DATA")
                       => SameFields(Survivors[i], after, {"budget", "revenue"})
                /\ Holds("DETAILED_METRICS")
                       => SameFields(Survivors[i], after, {"detailedMetrics"})

\* with FINANCIAL_DATA but not DETAILED_METRICS the budget stays and the metrics go
C13_Witness ==
    /\ filterPc = "returned"
    /\ filterOutcome = "filtered"
    /\ Holds("FINANCIAL_DATA")
    /\ ~Holds("DETAILED_METRICS")
    /\ KeysOf(OutputProjects) = <<"CRM">>
    /\ OutputProjects[1].budget = 1000000
    /\ "detailedMetrics" \notin DOMAIN OutputProjects[1]
    /\ "detailedMetrics" \in DOMAIN InputProjects[1]

\* C14: the data the filter returns has no top-level financialData unless the
\* caller holds FINANCIAL_DATA and no top-level detailedMetrics unless the
\* caller holds DETAILED_METRICS.
C14_TopLevelSectionsNeedPermission ==
    FirstCallDone =>
        /\ "financialData" \in DOMAIN filteredData => Holds("FINANCIAL_DATA")
        /\ "detailedMetrics" \in DOMAIN filteredData => Holds("DETAILED_METRICS")

\* C15: every project that survives the scoping keeps every field other than
\* budget, revenue and detailedMetrics, with the value it had.
C15_NonSensitiveFieldsKept ==
    (FirstCallDone /\ filterOutcome = "filtered") =>
        /\ Len(OutputProjects) = Len(Survivors)
        /\ \A i \in DOMAIN OutputProjects :
              i \in DOMAIN Survivors =>
                  SameFields(Survivors[i], OutputProjects[i],
                             (DOMAIN Survivors[i] \cup DOMAIN OutputProjects[i])
                                 \ SensitiveProjectFields)

\* a project with an undefined leadAccountId is redacted and survives
C15_Witness ==
    /\ filterPc = "returned"
    /\ filterOutcome = "filtered"
    /\ ~Holds("FINANCIAL_DATA")
    /\ KeysOf(OutputProjects) = <<"PLAT">>
    /\ "budget" \in DOMAIN Survivors[1]
    /\ OutputProjects[1].blockedIssues = 4

\* C16: on every path the object passed to the filter stays as it was when
\* the call was made.
C16_InputNotMutated == portfolioData = originalData

\* the call returned data that differs from its input
C16_Witness ==
    /\ filterPc = "returned"
    /\ filterOutcome = "filtered"
    /\ Len(OutputProjects) > 0
    /\ filteredData # originalData
    /\ portfolioData = originalData

\* the result has an empty project list and none of the other sections
FailedClosed ==
    /\ "projects" \in DOMAIN filteredData
    /\ filteredData.projects = << >>
    /\ DOMAIN filteredData
          \cap {"financialData", "detailedMetrics", "portfolio", "criticalAlerts"} = {}

\* some entry of the permission list has no scope
EntryWithoutScope ==
    /\ userPermissions.isArray
    /\ \E i \in DOMAIN userPermissions.items :
          /\ ~userPermissions.items[i].isNull
          /\ ~userPermissions.items[i].hasScope

\* C17 as stated: when the permission provider throws or a permission entry
\* has no scope, the filter returns an empty project list and no
\* financialData, detailedMetrics, summary or alerts.
C17_FailsClosedOnEntryWithoutScope ==
    (FirstCallDone /\ (filterOutcome = "provider rejected" \/ EntryWithoutScope))
        => FailedClosed

\* the evaluation of the try block reaches a null entry of the list
NullEntryReached ==
    /\ userPermissions.isArray
    /\ \E i \in DOMAIN userPermissions.items :
          /\ userPermissions.items[i].isNull
          /\ \/ "projects" \in DOMAIN originalData
             \/ \A j \in 1..(i - 1) : userPermissions.items[j].type # "FINANCIAL_DATA"

\* C17 as amended: the filter fails closed exactly when the provider rejects,
\* its answer is not an array or a null entry of the list is reached; the
\* result is then an empty project list without any other section.
C17_FailsClosedOnError ==
    FirstCallDone =>
        LET internalError ==
                \/ filterOutcome = "provider rejected"
                \/ ~userPermissions.isArray
                \/ NullEntryReached
        IN  /\ internalError <=> filterOutcome # "filtered"
            /\ internalError => FailedClosed

\* a null entry in the permission list of a full portfolio
C17_Witness ==
    /\ filterPc = "returned"
    /\ filterOutcome = "caught"
    /\ NullEntryReached
    /\ Holds("PORTFOLIO_VIEW")
    /\ Len(InputProjects) > 0
    /\ "portfolio" \in DOMAIN originalData
    /\ filteredData = [projects |-> << >>]

\* C18: the filter applied to its own result, the provider giving the same
\* permission list both times, returns that result unchanged.
C18_Idempotent ==
    (/\ filterPc = "refiltered"
     /\ filterOutcome # "provider rejected"
     /\ refilterOutcome # "provider rejected")
        => refilteredData = filteredData

\* the first call redacted a project and the second call returned the same data
C18_Witness ==
    /\ filterPc = "refiltered"
    /\ filterOutcome = "filtered"
    /\ refilterOutcome = "filtered"
    /\ Len(OutputProjects) > 0
    /\ filteredData # originalData
    /\ refilteredData = filteredData

(***************************************************************************)
(* Properties of authenticateUser.                                         *)
(***************************************************************************)
\* the message of the first business rule the call breaks, "" if it breaks none
FirstBrokenRule ==
    IF "forgeContext" \notin DOMAIN authOptions \/ authOptions.forgeContext = FALSE
    THEN "Forge context required for executive authentication"
    ELSE IF authnUserId \notin {"exec-ceo-001", "exec-"}
    THEN "Invalid executive user ID format"
    ELSE IF "securityLevel" \in DOMAIN authOptions /\ authOptions.securityLevel = "low"
    THEN "Insufficient security level for executive access"
    ELSE ""

\* C20 as stated: a call that breaks a business rule (no forgeContext, user id
\* not starting with 'exec-', securityLevel 'low', in this order) returns a
\* failure with that rule's message, token null and user null, without calling
\* authenticateWithForge; success is returned only when no rule is broken and
\* the adapter reported success.
C20_RulesBeforePlatform ==
    /\ FirstBrokenRule # "" => forgeCalls = 0
    /\ (authnPc = "returned" /\ FirstBrokenRule # "") =>
          authResult = [success |-> FALSE, error |-> FirstBrokenRule,
                        token |-> JsNull, user |-> JsNull]
    /\ (authnPc = "returned" /\ authResult.success) =>
          /\ FirstBrokenRule = ""
          /\ forgeCalls = 1
          /\ forgeAnswer.success

\* C20 as amended: the same, except that the failure carries the rule's
\* message only if the audit sink accepted the failure event; if the sink
\* rejected it, the failure carries the sink's error message instead.
C20_RulesBeforePlatformUnlessAuditFails ==
    /\ FirstBrokenRule # "" => forgeCalls = 0
    /\ (authnPc = "returned" /\ FirstBrokenRule # "") =>
          /\ authResult.success = FALSE
          /\ authResult.token = JsNull
          /\ authResult.user = JsNull
          /\ Len(authnCalls) = 1 => authResult.error = FirstBrokenRule
          /\ Len(authnCalls) # 1 =>
                /\ authResult.error = "Audit service unavailable"
                /\ authnCalls[1].event = "AUTHENTICATION_FAILURE"
                /\ authnCalls[1].error = FirstBrokenRule
    /\ (authnPc = "returned" /\ authResult.success) =>
          /\ FirstBrokenRule = ""
          /\ forgeCalls = 1
          /\ forgeAnswer.success

\* an 'exec-' user with a forge context is turned away for securityLevel 'low'
C20_Witness ==
    /\ authnPc = "returned"
    /\ authnUserId = "exec-ceo-001"
    /\ authOptions = [forgeContext |-> TRUE, securityLevel |-> "low"]
    /\ forgeCalls = 0
    /\ authResult.success = FALSE
    /\ authResult.error = "Insufficient security level for executive access"

(***************************************************************************)
(* Properties of getExecutivePortfolio.                                    *)
(***************************************************************************)
\* authorizePortfolioAccess has returned true for this call
GateOpened == pc = "returned" /\ result

\* C11: the data source is queried, and project data is returned, only after
\* authorizePortfolioAccess has returned true for the call; with a missing
\* token or a gate that returned false the data source is never queried.
C11_GateBeforeData ==
    /\ jiraCalls > 0 => GateOpened
    /\ servicePc \in {"fetching", "measuring", "filtering", "logging access"}
          => GateOpened
    /\ (servicePc = "returned" /\ serviceResult # SecureFallbackPortfolio)
          => GateOpened /\ jiraCalls > 0
    /\ serviceToken \in {JsNull, ""} => jiraCalls = 0
    /\ (pc = "returned" /\ ~result) => jiraCalls = 0

\* the gate opened, two projects were fetched and measured, and data was returned
C11_Witness ==
    /\ servicePc = "returned"
    /\ GateOpened
    /\ jiraCalls = 3
    /\ "status" \notin DOMAIN serviceResult
    /\ Len(serviceResult.projects) = 2

\* authenticateWithForge was called and rejected
ForgeThrew ==
    /\ forgeCalls = 1
    /\ authnPc \in {"logging", "returned", "threw"}
    /\ "token" \notin DOMAIN forgeAnswer

\* C21: authenticateUser never throws, and every call hands exactly one event
\* to the audit sink, of the type of the returned outcome: AUTHENTICATION_ERROR
\* with the error message when the adapter threw, AUTHENTICATION_SUCCESS when
\* it reported success, AUTHENTICATION_FAILURE when it or a business rule
\* reported failure.
C21_OneEventMatchingOutcome ==
    /\ authnPc # "threw"
    /\ authnPc = "returned" =>
          /\ Len(authnCalls) = 1
          /\ authnLog = authnCalls
          /\ authResult.success => authnLog[1].event = "AUTHENTICATION_SUCCESS"
          /\ ForgeThrew =>
                /\ authnLog[1].event = "AUTHENTICATION_ERROR"
                /\ authResult =
                      [success |-> FALSE, token |-> JsNull, user |-> JsNull,
                       error |-> "Forge authentication service unavailable"]
          /\ (~authResult.success /\ ~ForgeThrew) =>
                /\ authnLog[1].event = "AUTHENTICATION_FAILURE"
                /\ authnLog[1].error = authResult.error

(***************************************************************************)
(* More properties of authorizePortfolioAccess.                            *)
(***************************************************************************)
\* some event handed to the audit sink was rejected by it
AuditSinkFailed ==
    Len(auditCalls) > Len(auditLog) + (IF pc = "logging" THEN 1 ELSE 0)

\* C26: authorizePortfolioAccess returns true only when the AUTHORIZED event
\* was recorded; once the audit sink has failed the result is not true.
C26_TrueOnlyAfterAuthorizedRecorded ==
    /\ (pc = "returned" /\ result) =>
          /\ auditLog = auditCalls
          /\ Len(auditLog) = 1
          /\ auditLog[1].result = "AUTHORIZED"
    /\ AuditSinkFailed => ~(pc = "returned" /\ result)

\* the grant was found, the sink rejected the AUTHORIZED event, false was returned
C26_Witness ==
    /\ pc = "returned"
    /\ auditCalls[1].result = "AUTHORIZED"
    /\ AuditSinkFailed
    /\ Len(auditLog) = 1
    /\ auditLog[1].result = "ERROR"
    /\ ~result

(***************************************************************************)
(* More properties of getExecutivePortfolio.                               *)
(***************************************************************************)
\* getExecutivePortfolio returned something other than the fallback portfolio
ReturnedData == servicePc = "returned" /\ "status" \notin DOMAIN serviceResult

\* the catch block of getExecutivePortfolio was entered
AccessDenied ==
    \E i \in DOMAIN serviceEvents : "event" \in DOMAIN serviceEvents[i]

\* C22: a call with a missing token, a gate that returned false or a step
\* that threw returns the fallback portfolio (no projects, no alerts, a
\* summary of zeros, status 'access_denied', no financialData, no
\* detailedMetrics), after a PORTFOLIO_ACCESS_DENIED event with the reason.
C22_FallbackOnDenial ==
    LET denied ==
            \/ serviceToken \in {JsNull, ""}
            \/ pc = "returned" /\ ~result
            \/ pc = "threw"
            \/ AccessDenied
    IN  /\ servicePc # "threw"
        /\ (servicePc = "returned" /\ denied) =>
              /\ serviceResult.projects = << >>
              /\ serviceResult.criticalAlerts = << >>
              /\ serviceResult.portfolio =
                    [totalProjects |-> 0, healthScore |-> 0, criticalAlerts |-> 0,
                     onTrackProjects |-> 0, atRiskProjects |-> 0]
              /\ serviceResult.status = "access_denied"
              /\ DOMAIN serviceResult \cap {"financialData", "detailedMetrics"} = {}
              /\ Len(serviceEvents) > 0
              /\ LET last == serviceEvents[Len(serviceEvents)]
                 IN  /\ "event" \in DOMAIN last
                     /\ last.event = "PORTFOLIO_ACCESS_DENIED"
                     /\ last.reason # ""

\* the data-access events among the events of the call
AccessEvents == SelectSeq(serviceEvents, LAMBDA e : "resource" \in DOMAIN e)

\* C23: a result that is not the fallback is preceded by exactly one
\* data-access event, with resource 'EXECUTIVE_PORTFOLIO', action 'read', the
\* caller's user id and business unit, and the number of returned projects.
C23_OneAccessEventPerResult ==
    ReturnedData =>
        /\ Len(AccessEvents) = 1
        /\ AccessEvents[1] =
              [userId |-> serviceUserId, resource |-> "EXECUTIVE_PORTFOLIO",
               action |-> "read",
               businessUnit |-> GetExecutiveBusinessUnit(serviceUserId),
               projectCount |-> Len(serviceResult.projects)]

\* two projects were fetched, one was returned and the event counts one
C23_Witness ==
    /\ ReturnedData
    /\ Len(fetchedProjects) = 2
    /\ Len(serviceResult.projects) = 1
    /\ AccessEvents[1].projectCount = 1
    /\ AccessEvents[1].businessUnit = "Sales"

\* the data has been handed to the filter
ReachedFilter == servicePc \in {"filtering", "logging access"} \/ ReturnedData

\* the keys of the fetched projects the data source gave no businessUnit
WithoutUnit ==
    { fetchedProjects[i].key :
        i \in { j \in DOMAIN fetchedProjects :
                  "businessUnit" \notin DOMAIN fetchedProjects[j] } }

\* C24: a fetched project without businessUnit reaches the filter with
\* businessUnit 'Corporate'; every project reaching the filter has a
\* businessUnit; such a project is returned only to a caller whose
\* PORTFOLIO_VIEW scope contains 'Corporate' or 'All_Units', and to every such
\* caller when the filter raised no error.
C24_MissingUnitDefaultsToCorporate ==
    LET covered ==
            /\ Holds("PORTFOLIO_VIEW")
            /\ "Corporate" \in GrantedUnits \/ "All_Units" \in GrantedUnits
        returnedKeys ==
            { serviceResult.projects[i].key : i \in DOMAIN serviceResult.projects }
    IN  /\ ReachedFilter =>
              /\ Len(originalData.projects) = Len(fetchedProjects)
              /\ \A i \in DOMAIN originalData.projects :
                    /\ "businessUnit" \in DOMAIN originalData.projects[i]
                    /\ originalData.projects[i].key \in WithoutUnit
                          => originalData.projects[i].businessUnit = "Corporate"
        /\ ReturnedData =>
              \A k \in WithoutUnit :
                  /\ k \in returnedKeys => covered
                  /\ (filterOutcome = "filtered" /\ covered) => k \in returnedKeys

\* a project fetched without businessUnit is returned under a Corporate scope
C24_Witness ==
    /\ ReturnedData
    /\ "EXEC" \in WithoutUnit
    /\ ~("All_Units" \in GrantedUnits)
    /\ "Corporate" \in GrantedUnits
    /\ Len(serviceResult.projects) = 1
    /\ serviceResult.projects[1].key = "EXEC"
    /\ serviceResult.projects[1].businessUnit = "Corporate"

\* C25: the alerts of a returned result refer to returned projects only, and
\* its summary counts exactly the returned projects.
C25_AlertsAndSummaryOfReturnedProjects ==
    (ReturnedData /\ "portfolio" \in DOMAIN serviceResult) =>
        LET ps == serviceResult.projects
        IN  /\ \A i \in DOMAIN serviceResult.criticalAlerts :
                  \E j \in DOMAIN ps :
                      ps[j].key = serviceResult.criticalAlerts[i].projectKey
            /\ serviceResult.portfolio.totalProjects = Len(ps)
            /\ serviceResult.portfolio.onTrackProjects =
                  Cardinality({ j \in DOMAIN ps : CalculateProjectHealth(ps[j]) >= 70 })
            /\ serviceResult.portfolio.atRiskProjects =
                  Cardinality({ j \in DOMAIN ps : CalculateProjectHealth(ps[j]) < 70 })
            /\ serviceResult.portfolio.criticalAlerts =
                  Cardinality({ j \in DOMAIN ps : IsProjectCritical(ps[j]) })

\* C27: the projects of a returned result are allowed by the permissions the
\* filter read, whatever the gate had read before; none is returned when the
\* later reading has no PORTFOLIO_VIEW permission.
C27_FilterUsesLaterReading ==
    ReturnedData =>
        /\ \A i \in DOMAIN serviceResult.projects :
              MayView(serviceResult.projects[i])
        /\ ~Holds("PORTFOLIO_VIEW") => serviceResult.projects = << >>

\* the gate read an All_Units grant, the filter a Corporate one: Sales is held back
C27_Witness ==
    /\ ReturnedData
    /\ storedPermissions.items = <<Permission("PORTFOLIO_VIEW", {"All_Units"})>>
    /\ userPermissions.items = <<Permission("PORTFOLIO_VIEW", {"Corporate"})>>
    /\ Len(fetchedProjects) = 2
    /\ Len(serviceResult.projects) = 1
    /\ serviceResult.projects[1].key = "EXEC"

(***************************************************************************)
(* Properties of the dashboard path.                                       *)
(***************************************************************************)
\* the three count searches of project i all failed
AllCountsFailed(i) ==
    /\ countResponses[i].overdue.kind # "ok"
    /\ countResponses[i].blocked.kind # "ok"
    /\ countResponses[i].highPriority.kind # "ok"

\* C30: a failed project search gives an empty project list and a failed
\* count search gives 0; resolveDashboard always resolves to a summary and a
\* list of alerts; a project whose count searches all failed scores 100 and
\* has no alert; a failed project search gives totalProjects 0 and healthScore 0.
C30_DashboardDegradesToZeros ==
    /\ (dashPc \in {"fetching metrics", "resolved"} /\ projectResponse.kind # "ok")
          => dashProjects = << >>
    /\ dashPc = "resolved" =>
          /\ DOMAIN dashboard \cap {"error", "status"} = {}
          /\ {"portfolio", "criticalAlerts"} \subseteq DOMAIN dashboard
          /\ Len(dashEnhanced) = Len(dashProjects)
          /\ \A i \in DOMAIN dashEnhanced :
                /\ countResponses[i].overdue.kind # "ok"
                      => dashEnhanced[i].overdueIssues = 0
                /\ countResponses[i].blocked.kind # "ok"
                      => dashEnhanced[i].blockedIssues = 0
                /\ countResponses[i].highPriority.kind # "ok"
                      => dashEnhanced[i].highPriorityIssues = 0
                /\ AllCountsFailed(i) =>
                      /\ CalculateProjectHealth(dashEnhanced[i]) = 100
                      /\ \A k \in DOMAIN dashboard.criticalAlerts :
                            dashboard.criticalAlerts[k].projectKey
                                # dashEnhanced[i].key
          /\ projectResponse.kind # "ok" =>
                /\ dashboard.portfolio.totalProjects = 0
                /\ dashboard.portfolio.healthScore = 0
                /\ dashboard.criticalAlerts = << >>

\* one project's counts all failed while the other project raised an alert
C30_Witness ==
    /\ dashPc = "resolved"
    /\ Len(dashEnhanced) = 2
    /\ AllCountsFailed(1)
    /\ countResponses[2].overdue = [kind |-> "ok", total |-> 7]
    /\ Len(dashboard.criticalAlerts) = 1
    /\ dashboard.criticalAlerts[1].projectKey = "SALES"
    /\ dashboard.portfolio.totalProjects = 2

(***************************************************************************)
(* More properties of the portfolio rules.                                 *)
(***************************************************************************)
\* C28: for non-negative counts the per-project score is at least 25 and is
\* what the three capped deductions leave, the clamp to 0 changing nothing;
\* the score of a non-empty portfolio is at least 25.
C28_ScoreAtLeast25 ==
    op = "calculateHealthScore" =>
        /\ \A i \in DOMAIN projects :
              /\ CalculateProjectHealth(projects[i]) >= 25
              /\ CalculateProjectHealth(projects[i]) =
                    100 - Min(30, 5 * projects[i].overdueIssues)
                        - Min(20, 3 * projects[i].blockedIssues)
                        - Min(25, 2 * projects[i].highPriorityIssues)
        /\ Len(projects) > 0 => ret >= 25

\* a portfolio whose projects all reach the three caps scores exactly 25
C28_Witness ==
    /\ op = "calculateHealthScore"
    /\ Len(projects) = 2
    /\ \A i \in DOMAIN projects :
          /\ projects[i].overdueIssues = 7
          /\ projects[i].blockedIssues = 7
          /\ projects[i].highPriorityIssues = 13
    /\ ret = 25

\* C29: no alert carries the reason 'Multiple risk factors': the reason of
\* every alert is its project's overdue count, its blocked count or 'Overall
\* health below 50%', and the last of these does occur.
C29_NoFallbackReason ==
    op = "getCriticalAlerts" =>
        \A k \in 1..Len(ret) :
            /\ ret[k].reason # "Multiple risk factors"
            /\ \E i \in DOMAIN projects :
                  /\ projects[i].key = ret[k].projectKey
                  /\ \/ /\ projects[i].overdueIssues > 5
                        /\ ret[k].reason =
                              NumberToString(projects[i].overdueIssues)
                                  \o " overdue issues"
                     \/ /\ projects[i].blockedIssues > 3
                        /\ ret[k].reason =
                              NumberToString(projects[i].blockedIssues)
                                  \o " blocked issues"
                     \/ /\ CalculateProjectHealth(projects[i]) < 50
                        /\ ret[k].reason = "Overall health below 50%"

\* a project with 5 overdue and 3 blocked issues is flagged for its low health
C29_Witness ==
    /\ op = "getCriticalAlerts"
    /\ Len(projects) = 1
    /\ projects[1].overdueIssues = 5
    /\ projects[1].blockedIssues = 3
    /\ CalculateProjectHealth(projects[1]) = 41
    /\ Len(ret) = 1
    /\ ret[1].reason = "Overall health below 50%"

====
